---- MODULE Spec2Model ----
(***************************************************************************)
(* Invoice / quote lifecycle and monetary engine of facturerapide-api.     *)
(*                                                                         *)
(* The state is the content of the database tables invoices,               *)
(* invoice_items, payments, quotes and quote_items, as left by each        *)
(* request.  Every action is one request handler (endpoint + service       *)
(* method), including the requests the service rejects: a rejected         *)
(* request changes no table and only records its outcome in `last`.        *)
(*                                                                         *)
(* Units.  Stored money columns are Numeric(12,2): they are integers in    *)
(* cents.  Quantities are whole numbers, percentages whole percents.       *)
(* Values computed from a line (subtotal, tax_amount) are exact Decimals   *)
(* in the code; here they are integers in 1/10000 of a cent, which is      *)
(* exact for these inputs.  Writing a computed value to a Numeric(12,2)    *)
(* column rounds it to the cent (Round2).  The amount of a payment request *)
(* is a Decimal of any scale; here it is an integer in tenths of a cent    *)
(* (AmountScale), rounded to the cent when it is stored (RoundCent).       *)
(***************************************************************************)
EXTENDS Integers, Sequences, FiniteSets, TLC

VARIABLES invoices, invoice_items, payments, quotes, quote_items, users, next_id, reqs, last

vars == <<invoices, invoice_items, payments, quotes, quote_items, users, next_id, reqs, last>>
db == <<invoices, invoice_items, payments, quotes, quote_items>>

----------------------------------------------------------------------------
(* Bounds of the model *)
MaxInvoices == 1
MaxQuotes == 1
MaxItemIds == 2
MaxPayments == 2

(* Number of fine units (1e-6 currency) in one cent: scale 2 of Numeric(12,2) *)
FinePerCent == 10000

(* Number of payload amount units (1e-3 currency) in one cent *)
AmountScale == 10

Owners == {1, 2}
Clients == {1, 2}
(* clients table: client 1 belongs to owner 1, client 2 to owner 2 *)
ClientOwner(c) == c

(* E-mail addresses of registration payloads: a local part and a domain.   *)
(* RegisterRequest.email is an EmailStr: validation lower-cases the domain *)
(* and keeps the local part as it was written.                             *)
Locals == {"owner1", "a", "A", "b"}
Domains == {"x.io", "X.IO"}
RawEmails == [local : Locals, domain : Domains]
lower(s) == IF s = "X.IO" THEN "x.io" ELSE s
EmailStr(raw) == [raw EXCEPT !.domain = lower(@)]
(* users table at the start: the accounts of the two owners *)
OwnerEmail(u) == [local |-> IF u = 1 THEN "owner1" ELSE "owner2", domain |-> "x.io"]

InvoiceStatus == {"draft", "sent", "paid", "partially_paid", "overdue", "cancelled"}
QuoteStatus == {"draft", "sent", "accepted", "rejected", "expired", "converted"}

(* Line-item payloads the requests carry: quantity, unit_price (cents),    *)
(* discount_percent, tax_rate.                                             *)
ItemInputs ==
  { [quantity |-> 2, unit_price |-> 10000, discount_percent |-> 0, tax_rate |-> 20],
    [quantity |-> 1, unit_price |-> 47, discount_percent |-> 10, tax_rate |-> 20] }

ItemLists == {<<>>} \cup {<<a>> : a \in ItemInputs}
               \cup {<<a, b>> : a \in ItemInputs, b \in ItemInputs}

----------------------------------------------------------------------------
(* Monetary line-item calculator *)

(* InvoiceItem.subtotal / QuoteItem.subtotal, in fine units *)
ItemSubtotal(it) ==
  LET gross == it.quantity * it.unit_price * FinePerCent
      discount == (gross \div 100) * it.discount_percent
  IN gross - discount

(* InvoiceItem.tax_amount / QuoteItem.tax_amount, in fine units *)
ItemTaxAmount_before_discount(it) ==
  ((it.quantity * it.unit_price * FinePerCent) \div 100) * it.tax_rate
ItemTaxAmount(it) == (ItemSubtotal(it) \div 100) * it.tax_rate

(* InvoiceItem.total / QuoteItem.total *)
ItemTotal(it) == ItemSubtotal(it) + ItemTaxAmount(it)

(* Storing a Decimal in a Numeric(12,2) column: rounded to the cent,       *)
(* half away from zero (values are never negative here).                   *)
Round2(x) == (x + (FinePerCent \div 2)) \div FinePerCent

(* Storing a payment amount, or a sum with one, in a Numeric(12,2) column *)
RoundCent(x) == (x + (AmountScale \div 2)) \div AmountScale

RECURSIVE SumSubtotal(_, _)
SumSubtotal(tbl, ids) ==
  IF ids = {} THEN 0
  ELSE LET k == CHOOSE k \in ids : TRUE
       IN ItemSubtotal(tbl[k]) + SumSubtotal(tbl, ids \ {k})

RECURSIVE SumTax(_, _)
SumTax(tbl, ids) ==
  IF ids = {} THEN 0
  ELSE LET k == CHOOSE k \in ids : TRUE
       IN ItemTaxAmount(tbl[k]) + SumTax(tbl, ids \ {k})

RECURSIVE SumAmount(_, _)
SumAmount(tbl, ids) ==
  IF ids = {} THEN 0
  ELSE LET k == CHOOSE k \in ids : TRUE
       IN tbl[k].amount + SumAmount(tbl, ids \ {k})

ItemsOf(tbl, fk, d) == {k \in DOMAIN tbl : tbl[k][fk] = d}
InvoiceItemsOf(i) == ItemsOf(invoice_items, "invoice_id", i)
QuoteItemsOf(q) == ItemsOf(quote_items, "quote_id", q)
PaymentsOf(i) == {p \in DOMAIN payments : payments[p].invoice_id = i}

(* Invoice.calculate_totals / Quote.calculate_totals followed by flush:    *)
(* the three columns are written from the full-precision sums.             *)
calculate_totals_accumulating(doc, tbl, ids) ==
  LET subtotal == SumSubtotal(tbl, ids)
      tax_total == SumTax(tbl, ids)
  IN [doc EXCEPT !.subtotal = @ + Round2(subtotal),
                 !.tax_total = @ + Round2(tax_total),
                 !.total = @ + Round2(subtotal + tax_total)]
calculate_totals(doc, tbl, ids) ==
  LET subtotal == SumSubtotal(tbl, ids)
      tax_total == SumTax(tbl, ids)
  IN [doc EXCEPT !.subtotal = Round2(subtotal),
                 !.tax_total = Round2(tax_total),
                 !.total = Round2(subtotal + tax_total)]

(* Invoice.balance_due *)
balance_due(inv) == inv.total - inv.amount_paid

(* Invoice.is_fully_paid *)
is_fully_paid_strict(inv) == inv.amount_paid > inv.total
is_fully_paid(inv) == inv.amount_paid >= inv.total

----------------------------------------------------------------------------
(* A payment request between its read of the invoice and its write: the   *)
(* request's arguments and the invoice columns its session has loaded.     *)
Idle == [pc |-> "idle", owner |-> 0, invoice_id |-> 0, amount |-> 0,
         amount_paid |-> 0, total |-> 0, status |-> "none"]

(* `last` is the request served last: operation, caller, addressed id,     *)
(* payload, outcome of the external call it made (PDF / e-mail) and result *)
NoOp == [op |-> "none", owner |-> 0, id |-> 0, arg |-> 0, ext |-> "none", res |-> "none"]

(* In a run that starts unobserved only the result of the request is kept *)
Unobserved == [NoOp EXCEPT !.op = "unobserved"]

OutcomeExt(op, u, id, arg, ext, res) ==
  IF last.op = "unobserved"
  THEN [Unobserved EXCEPT !.res = res]
  ELSE [op |-> op, owner |-> u, id |-> id, arg |-> arg, ext |-> ext, res |-> res]

Outcome(op, u, id, arg, res) == OutcomeExt(op, u, id, arg, "none", res)

(* The empty database, no request in progress *)
InitTables ==
  /\ invoices = <<>>
  /\ invoice_items = <<>>
  /\ payments = <<>>
  /\ quotes = <<>>
  /\ quote_items = <<>>
  /\ users = [u \in Owners |-> [email |-> OwnerEmail(u)]]
  /\ next_id = [invoice |-> 1, invoice_item |-> 1, payment |-> 1, quote |-> 1, quote_item |-> 1]
  /\ reqs = [r \in {1, 2} |-> Idle]

Init == InitTables /\ last = Unobserved

InitObserved == InitTables /\ last = NoOp

----------------------------------------------------------------------------
(* Lookups scoped by owner *)

(* InvoiceService.get_by_id: the row, filtered by id and owner_id *)
InvoiceFound_any_owner(u, i) == i \in DOMAIN invoices
InvoiceFound(u, i) == i \in DOMAIN invoices /\ invoices[i].owner_id = u

(* PaymentService.get_by_id: payment joined with its invoice's owner *)
PaymentFound(u, p) ==
  /\ p \in DOMAIN payments
  /\ payments[p].invoice_id \in DOMAIN invoices
  /\ invoices[payments[p].invoice_id].owner_id = u

(* Client lookup of InvoiceService.create / QuoteService.create *)
ClientFound(u, c) == c \in Clients /\ ClientOwner(c) = u

(* InvoiceService._generate_invoice_number: count of the owner's invoices  *)
(* of the current year, plus one (the sequence part of FACT-<year>-NNNNN). *)
generate_invoice_number(u) ==
  Cardinality({i \in DOMAIN invoices : invoices[i].owner_id = u}) + 1

(* unique=True on invoices.invoice_number *)
InvoiceNumberTaken_unenforced(n) == FALSE
InvoiceNumberTaken(n) == \E i \in DOMAIN invoices : invoices[i].invoice_number = n

(* InvoiceService._create_item / QuoteService._create_item without product *)
create_item(fk, doc_id, data) ==
  [quantity |-> data.quantity, unit_price |-> data.unit_price,
   tax_rate |-> data.tax_rate, discount_percent |-> data.discount_percent]
  @@ (fk :> doc_id)

(* rows inserted for a list of item payloads, with fresh ids from `first` *)
NewItems(fk, doc_id, its, first) ==
  [k \in first .. (first + Len(its) - 1) |-> create_item(fk, doc_id, its[k - first + 1])]

----------------------------------------------------------------------------
(* Invoice requests *)

(* Totals written by InvoiceService.create: subtotal and total are set on  *)
(* the mapped columns, the tax sum is assigned to `tax_amount`, which is   *)
(* not a column of Invoice, so tax_total keeps its default 0.00.           *)
create_totals(inv, tbl, ids) ==
  LET subtotal == SumSubtotal(tbl, ids)
      tax_amount == SumTax(tbl, ids)
  IN [inv EXCEPT !.subtotal = Round2(subtotal),
                 !.total = Round2(subtotal + tax_amount)]

InvoiceService_create(u, c, its) ==
     LET id == next_id.invoice
         number == generate_invoice_number(u)
         rows == NewItems("invoice_id", id, its, next_id.invoice_item)
         inv == [owner_id |-> u, client_id |-> c, invoice_number |-> number,
                 status |-> "draft",
                 subtotal |-> 0, tax_total |-> 0, total |-> 0, amount_paid |-> 0,
                 sent_at |-> FALSE]
     IN IF ~ClientFound(u, c)
        THEN /\ last' = Outcome("invoice_create", u, 0, c, "NotFound")
             /\ UNCHANGED <<db, next_id, reqs, users>>
        ELSE IF InvoiceNumberTaken(number)
        THEN /\ last' = Outcome("invoice_create", u, 0, c, "IntegrityError")
             /\ UNCHANGED <<db, next_id, reqs, users>>
        ELSE /\ invoices' = invoices @@ (id :> create_totals(inv, rows, DOMAIN rows))
             /\ invoice_items' = invoice_items @@ rows
             /\ next_id' = [next_id EXCEPT !.invoice = @ + 1,
                                           !.invoice_item = @ + Len(its)]
             /\ last' = Outcome("invoice_create", u, id, c, "ok")
             /\ UNCHANGED <<payments, quotes, quote_items, reqs, users>>

(* the guard of add_item and remove_item, of invoices and of quotes *)
lines_editable_until_sent(doc) == doc.status \in {"draft", "sent"}
lines_editable(doc) == doc.status = "draft"

InvoiceService_add_item(u, i, data) ==
     IF ~InvoiceFound(u, i)
     THEN /\ last' = Outcome("invoice_add_item", u, i, 0, "NotFound")
          /\ UNCHANGED <<db, next_id, reqs, users>>
     ELSE IF ~lines_editable(invoices[i])
     THEN /\ last' = Outcome("invoice_add_item", u, i, 0, "InvalidState")
          /\ UNCHANGED <<db, next_id, reqs, users>>
     ELSE LET k == next_id.invoice_item
              tbl == invoice_items @@ (k :> create_item("invoice_id", i, data))
          IN /\ invoice_items' = tbl
             /\ invoices' = [invoices EXCEPT
                  ![i] = calculate_totals(@, tbl, ItemsOf(tbl, "invoice_id", i))]
             /\ next_id' = [next_id EXCEPT !.invoice_item = @ + 1]
             /\ last' = Outcome("invoice_add_item", u, i, k, "ok")
             /\ UNCHANGED <<payments, quotes, quote_items, reqs, users>>

Without(tbl, ids) == [k \in DOMAIN tbl \ ids |-> tbl[k]]

InvoiceService_remove_item(u, i, k) ==
  IF ~InvoiceFound(u, i)
  THEN /\ last' = Outcome("invoice_remove_item", u, i, k, "NotFound")
       /\ UNCHANGED <<db, next_id, reqs, users>>
  ELSE IF ~lines_editable(invoices[i])
  THEN /\ last' = Outcome("invoice_remove_item", u, i, k, "InvalidState")
       /\ UNCHANGED <<db, next_id, reqs, users>>
  ELSE IF k \notin InvoiceItemsOf(i)
  THEN /\ last' = Outcome("invoice_remove_item", u, i, k, "ItemNotFound")
       /\ UNCHANGED <<db, next_id, reqs, users>>
  ELSE LET tbl == Without(invoice_items, {k})
       IN /\ invoice_items' = tbl
          /\ invoices' = [invoices EXCEPT
               ![i] = calculate_totals(@, tbl, ItemsOf(tbl, "invoice_id", i))]
          /\ last' = Outcome("invoice_remove_item", u, i, k, "ok")
          /\ UNCHANGED <<payments, quotes, quote_items, next_id, reqs, users>>

(* An optional field of an update payload: left unset, or one of vals *)
Opt(f, vals) == {<<>>} \cup {(f :> v) : v \in vals}

(* InvoiceUpdate payloads: the fields the request sets, with their values  *)
(* (client_id stands for all the fields that are not the status).          *)
InvoiceUpdateInputs ==
  {a @@ c : a \in Opt("client_id", Clients), c \in Opt("status", {"draft", "paid"})}

(* payloads that carry only a status *)
StatusOnly(D) == {d \in D : DOMAIN d = {"status"}}

(* the setattr loop over model_dump(exclude_unset=True) *)
apply_update(doc, data) ==
  [f \in DOMAIN doc |-> IF f \in DOMAIN data THEN data[f] ELSE doc[f]]

(* data.status is None *)
status_unset(data) == "status" \notin DOMAIN data

(* the guard of InvoiceService.update *)
invoice_update_allowed(inv, data) ==
  inv.status \in {"draft", "sent"} \/ ~status_unset(data)

InvoiceService_update(u, i, data) ==
  IF ~InvoiceFound(u, i)
  THEN /\ last' = Outcome("invoice_update", u, i, data, "NotFound")
       /\ UNCHANGED <<db, next_id, reqs, users>>
  ELSE IF ~invoice_update_allowed(invoices[i], data)
  THEN /\ last' = Outcome("invoice_update", u, i, data, "InvalidState")
       /\ UNCHANGED <<db, next_id, reqs, users>>
  ELSE /\ invoices' = [invoices EXCEPT ![i] = apply_update(@, data)]
       /\ last' = Outcome("invoice_update", u, i, data, "ok")
       /\ UNCHANGED <<invoice_items, payments, quotes, quote_items, next_id, reqs, users>>

(* Outcomes of the external calls of InvoiceService.send: pdf is what      *)
(* PDFService.generate_invoice_pdf does ("ok" or "raises"), mail what the  *)
(* e-mail to the client does: "sent", "false" (send_invoice returns False) *)
(* or "no_address" (the client has no e-mail address).                     *)
PdfOutcomes == {"ok", "raises"}
MailOutcomes == {"sent", "false", "no_address"}

(* The checks of InvoiceService.send and its external calls, in the order  *)
(* of the code; the result names the first that stops the request.         *)
(*   "Seules les factures brouillon peuvent etre envoyees" -> InvalidState *)
(*   "Impossible d'envoyer une facture sans lignes"        -> NoItems      *)
(*   "Client non trouve"                                   -> ClientNotFound *)
(*   "Le client n'a pas d'adresse email"                   -> NoEmail      *)
(*   exception out of generate_invoice_pdf                 -> ServerError  *)
send_check_any_lines(inv, has_items, pdf, mail) ==
  IF inv.status # "draft" THEN "InvalidState"
  ELSE IF inv.client_id \notin Clients THEN "ClientNotFound"
  ELSE IF mail = "no_address" THEN "NoEmail"
  ELSE IF pdf = "raises" THEN "ServerError"
  ELSE "ok"
send_check(inv, has_items, pdf, mail) ==
  IF inv.status # "draft" THEN "InvalidState"
  ELSE IF ~has_items THEN "NoItems"
  ELSE IF inv.client_id \notin Clients THEN "ClientNotFound"
  ELSE IF mail = "no_address" THEN "NoEmail"
  ELSE IF pdf = "raises" THEN "ServerError"
  ELSE "ok"

(* the external outcome a send request records *)
SendExt(pdf, mail) ==
  IF mail = "no_address" THEN "no_address"
  ELSE IF pdf = "raises" THEN "pdf_raises"
  ELSE mail

InvoiceService_send(u, i, pdf, mail) ==
  IF ~InvoiceFound(u, i)
  THEN /\ last' = Outcome("invoice_send", u, i, 0, "NotFound")
       /\ UNCHANGED <<db, next_id, reqs, users>>
  ELSE LET res == send_check(invoices[i], InvoiceItemsOf(i) # {}, pdf, mail)
       IN IF res # "ok"
          THEN /\ last' = OutcomeExt("invoice_send", u, i, 0, SendExt(pdf, mail), res)
               /\ UNCHANGED <<db, next_id, reqs, users>>
          ELSE /\ invoices' = [invoices EXCEPT ![i].status = "sent", ![i].sent_at = TRUE]
               /\ last' = OutcomeExt("invoice_send", u, i, 0, SendExt(pdf, mail), "ok")
               /\ UNCHANGED <<invoice_items, payments, quotes, quote_items, next_id, reqs, users>>

(* the guard of InvoiceService.cancel *)
cancel_allowed_always(inv) == TRUE
cancel_allowed(inv) == inv.status # "paid"

InvoiceService_cancel(u, i) ==
  IF ~InvoiceFound(u, i)
  THEN /\ last' = Outcome("invoice_cancel", u, i, 0, "NotFound")
       /\ UNCHANGED <<db, next_id, reqs, users>>
  ELSE IF ~cancel_allowed(invoices[i])
  THEN /\ last' = Outcome("invoice_cancel", u, i, 0, "InvalidTransition")
       /\ UNCHANGED <<db, next_id, reqs, users>>
  ELSE /\ invoices' = [invoices EXCEPT ![i].status = "cancelled"]
       /\ last' = Outcome("invoice_cancel", u, i, 0, "ok")
       /\ UNCHANGED <<invoice_items, payments, quotes, quote_items, next_id, reqs, users>>

(* InvoiceService.delete: the row, its items and payments (cascade), and   *)
(* quotes.converted_invoice_id is reset (ondelete SET NULL).               *)
(* the guard of InvoiceService.delete *)
delete_allowed_unless_paid(inv) == inv.status \notin {"paid", "partially_paid"}
delete_allowed(inv) == inv.status = "draft"

InvoiceService_delete(u, i) ==
  IF ~InvoiceFound(u, i)
  THEN /\ last' = Outcome("invoice_delete", u, i, 0, "NotFound")
       /\ UNCHANGED <<db, next_id, reqs, users>>
  ELSE IF ~delete_allowed(invoices[i])
  THEN /\ last' = Outcome("invoice_delete", u, i, 0, "InvalidState")
       /\ UNCHANGED <<db, next_id, reqs, users>>
  ELSE /\ invoices' = Without(invoices, {i})
       /\ invoice_items' = Without(invoice_items, InvoiceItemsOf(i))
       /\ payments' = Without(payments, PaymentsOf(i))
       /\ quotes' = [q \in DOMAIN quotes |->
                       IF quotes[q].converted_invoice_id = i
                       THEN [quotes[q] EXCEPT !.converted_invoice_id = 0]
                       ELSE quotes[q]]
       /\ last' = Outcome("invoice_delete", u, i, 0, "ok")
       /\ UNCHANGED <<quote_items, next_id, reqs, users>>

----------------------------------------------------------------------------
(* Payment requests *)

(* The precondition checks of PaymentService.create, in the order of the   *)
(* code; the result names the first check that fails.                      *)
(*   "Facture non trouvee"                         -> NotFound             *)
(*   "Impossible de payer une facture annulee"     -> InvalidState         *)
(*   "Impossible de payer une facture brouillon"   -> InvalidState         *)
(*   "Cette facture est deja entierement payee"    -> AlreadyPaid          *)
(*   "Le montant depasse le solde du"              -> ExceedsBalance       *)
payment_check_below(found, inv, amount) ==
  IF ~found THEN "NotFound"
  ELSE IF inv.status = "cancelled" THEN "InvalidState"
  ELSE IF inv.status = "draft" THEN "InvalidState"
  ELSE IF is_fully_paid(inv) THEN "AlreadyPaid"
  ELSE IF amount >= balance_due(inv) * AmountScale THEN "ExceedsBalance"
  ELSE "ok"
payment_check(found, inv, amount) ==
  IF ~found THEN "NotFound"
  ELSE IF inv.status = "cancelled" THEN "InvalidState"
  ELSE IF inv.status = "draft" THEN "InvalidState"
  ELSE IF is_fully_paid(inv) THEN "AlreadyPaid"
  ELSE IF amount > balance_due(inv) * AmountScale THEN "ExceedsBalance"
  ELSE "ok"

(* invoice.amount_paid += amount and the status update that follows; the   *)
(* status is decided on the Decimal sum in memory, the column then stores  *)
(* the sum rounded to the cent (flush, refresh).                           *)
apply_payment(inv, amount) ==
  LET paid == inv.amount_paid * AmountScale + amount
  IN [inv EXCEPT !.amount_paid = RoundCent(paid),
                 !.status = IF paid >= inv.total * AmountScale THEN "paid"
                            ELSE IF paid > 0 THEN "partially_paid"
                            ELSE @]

(* the Payment row inserted by create *)
new_payment(i, amount) == [invoice_id |-> i, amount |-> RoundCent(amount)]

(* Outcomes of the receipt e-mail: delivered, send_payment_receipt returns *)
(* False, it raises, or it is skipped (client without e-mail address).     *)
ReceiptOutcomes == {"sent", "false", "raises", "skipped"}

(* The try/except around the receipt e-mail: whatever the e-mail does,     *)
(* create goes on to `return payment`.                                     *)
receipt_result_raised(mail) == IF mail = "raises" THEN "ServerError" ELSE "ok"
receipt_result(mail) == "ok"

(* Amounts the payment requests carry for invoice i: 0.01, 0.004, the      *)
(* balance due, the balance due plus 0.01 and the balance due minus 0.004  *)
PaymentAmounts(i) ==
  {AmountScale, 4}
  \cup (IF i \in DOMAIN invoices
        THEN LET due == balance_due(invoices[i]) * AmountScale
             IN {a \in {due, due + AmountScale, due - 4} : a > 0}
        ELSE {})

PaymentService_create(u, i, amount, mail) ==
  LET found == InvoiceFound(u, i)
      res == payment_check(found, IF found THEN invoices[i] ELSE <<>>, amount)
      p == next_id.payment
  IN IF res # "ok"
     THEN /\ last' = Outcome("payment_create", u, i, amount, res)
          /\ UNCHANGED <<db, next_id, reqs, users>>
     ELSE IF receipt_result(mail) # "ok"
     THEN /\ last' = OutcomeExt("payment_create", u, i, amount, mail, receipt_result(mail))
          /\ UNCHANGED <<db, next_id, reqs, users>>
     ELSE /\ payments' = payments @@ (p :> new_payment(i, amount))
          /\ invoices' = [invoices EXCEPT ![i] = apply_payment(@, amount)]
          /\ next_id' = [next_id EXCEPT !.payment = @ + 1]
          /\ last' = OutcomeExt("payment_create", u, i, amount, mail, "ok")
          /\ UNCHANGED <<invoice_items, quotes, quote_items, reqs, users>>

(* the update of the invoice in PaymentService.delete *)
reverse_payment_kept(inv, amount) ==
  LET rest == inv.amount_paid - amount
  IN IF rest <= 0 THEN [inv EXCEPT !.status = "sent", !.amount_paid = 0]
     ELSE IF rest < inv.total
          THEN [inv EXCEPT !.status = "partially_paid"]
          ELSE [inv EXCEPT !.amount_paid = rest]
reverse_payment(inv, amount) ==
  LET rest == inv.amount_paid - amount
  IN IF rest <= 0 THEN [inv EXCEPT !.status = "sent", !.amount_paid = 0]
     ELSE IF rest < inv.total
          THEN [inv EXCEPT !.status = "partially_paid", !.amount_paid = rest]
          ELSE [inv EXCEPT !.amount_paid = rest]

PaymentService_delete(u, p) ==
  IF ~PaymentFound(u, p)
  THEN /\ last' = Outcome("payment_delete", u, p, 0, "NotFound")
       /\ UNCHANGED <<db, next_id, reqs, users>>
  ELSE LET i == payments[p].invoice_id
       IN /\ invoices' = [invoices EXCEPT ![i] = reverse_payment(@, payments[p].amount)]
          /\ payments' = Without(payments, {p})
          /\ last' = Outcome("payment_delete", u, p, i, "ok")
          /\ UNCHANGED <<invoice_items, quotes, quote_items, next_id, reqs, users>>

----------------------------------------------------------------------------
(* Quote requests *)

QuoteFound(u, q) == q \in DOMAIN quotes /\ quotes[q].owner_id = u

(* QuoteService._generate_quote_number *)
generate_quote_number(u) ==
  Cardinality({q \in DOMAIN quotes : quotes[q].owner_id = u}) + 1

(* unique=True on quotes.quote_number *)
QuoteNumberTaken(n) == \E q \in DOMAIN quotes : quotes[q].quote_number = n

QuoteService_create(u, c, its) ==
     LET id == next_id.quote
         number == generate_quote_number(u)
         rows == NewItems("quote_id", id, its, next_id.quote_item)
         quote == [owner_id |-> u, client_id |-> c, quote_number |-> number,
                   status |-> "draft",
                   subtotal |-> 0, tax_total |-> 0, total |-> 0,
                   converted_invoice_id |-> 0]
     IN IF ~ClientFound(u, c)
        THEN /\ last' = Outcome("quote_create", u, 0, c, "NotFound")
             /\ UNCHANGED <<db, next_id, reqs, users>>
        ELSE IF QuoteNumberTaken(number)
        THEN /\ last' = Outcome("quote_create", u, 0, c, "IntegrityError")
             /\ UNCHANGED <<db, next_id, reqs, users>>
        ELSE /\ quotes' = quotes @@ (id :> calculate_totals(quote, rows, DOMAIN rows))
             /\ quote_items' = quote_items @@ rows
             /\ next_id' = [next_id EXCEPT !.quote = @ + 1,
                                           !.quote_item = @ + Len(its)]
             /\ last' = Outcome("quote_create", u, id, c, "ok")
             /\ UNCHANGED <<invoices, invoice_items, payments, reqs, users>>

QuoteService_add_item(u, q, data) ==
     IF ~QuoteFound(u, q)
     THEN /\ last' = Outcome("quote_add_item", u, q, 0, "NotFound")
          /\ UNCHANGED <<db, next_id, reqs, users>>
     ELSE IF ~lines_editable(quotes[q])
     THEN /\ last' = Outcome("quote_add_item", u, q, 0, "InvalidState")
          /\ UNCHANGED <<db, next_id, reqs, users>>
     ELSE LET k == next_id.quote_item
              tbl == quote_items @@ (k :> create_item("quote_id", q, data))
          IN /\ quote_items' = tbl
             /\ quotes' = [quotes EXCEPT
                  ![q] = calculate_totals(@, tbl, ItemsOf(tbl, "quote_id", q))]
             /\ next_id' = [next_id EXCEPT !.quote_item = @ + 1]
             /\ last' = Outcome("quote_add_item", u, q, k, "ok")
             /\ UNCHANGED <<invoices, invoice_items, payments, reqs, users>>

QuoteService_remove_item(u, q, k) ==
  IF ~QuoteFound(u, q)
  THEN /\ last' = Outcome("quote_remove_item", u, q, k, "NotFound")
       /\ UNCHANGED <<db, next_id, reqs, users>>
  ELSE IF ~lines_editable(quotes[q])
  THEN /\ last' = Outcome("quote_remove_item", u, q, k, "InvalidState")
       /\ UNCHANGED <<db, next_id, reqs, users>>
  ELSE IF k \notin QuoteItemsOf(q)
  THEN /\ last' = Outcome("quote_remove_item", u, q, k, "ItemNotFound")
       /\ UNCHANGED <<db, next_id, reqs, users>>
  ELSE LET tbl == Without(quote_items, {k})
       IN /\ quote_items' = tbl
          /\ quotes' = [quotes EXCEPT
               ![q] = calculate_totals(@, tbl, ItemsOf(tbl, "quote_id", q))]
          /\ last' = Outcome("quote_remove_item", u, q, k, "ok")
          /\ UNCHANGED <<invoices, invoice_items, payments, next_id, reqs, users>>

QuoteUpdateInputs ==
  {a @@ c : a \in Opt("client_id", Clients), c \in Opt("status", {"draft", "accepted"})}

(* the guard of QuoteService.update *)
quote_update_allowed(quote, data) ==
  quote.status \in {"draft"} \/ ~status_unset(data)

QuoteService_update(u, q, data) ==
  IF ~QuoteFound(u, q)
  THEN /\ last' = Outcome("quote_update", u, q, data, "NotFound")
       /\ UNCHANGED <<db, next_id, reqs, users>>
  ELSE IF ~quote_update_allowed(quotes[q], data)
  THEN /\ last' = Outcome("quote_update", u, q, data, "InvalidState")
       /\ UNCHANGED <<db, next_id, reqs, users>>
  ELSE /\ quotes' = [quotes EXCEPT ![q] = apply_update(@, data)]
       /\ last' = Outcome("quote_update", u, q, data, "ok")
       /\ UNCHANGED <<invoices, invoice_items, payments, quote_items, next_id, reqs, users>>

QuoteService_send(u, q) ==
  IF ~QuoteFound(u, q)
  THEN /\ last' = Outcome("quote_send", u, q, 0, "NotFound")
       /\ UNCHANGED <<db, next_id, reqs, users>>
  ELSE IF quotes[q].status # "draft"
  THEN /\ last' = Outcome("quote_send", u, q, 0, "InvalidState")
       /\ UNCHANGED <<db, next_id, reqs, users>>
  ELSE IF QuoteItemsOf(q) = {}
  THEN /\ last' = Outcome("quote_send", u, q, 0, "NoItems")
       /\ UNCHANGED <<db, next_id, reqs, users>>
  ELSE /\ quotes' = [quotes EXCEPT ![q].status = "sent"]
       /\ last' = Outcome("quote_send", u, q, 0, "ok")
       /\ UNCHANGED <<invoices, invoice_items, payments, quote_items, next_id, reqs, users>>

(* the guard of QuoteService.accept and QuoteService.reject *)
decide_allowed_before_sent(quote) == quote.status \in {"draft", "sent"}
decide_allowed(quote) == quote.status = "sent"

(* QuoteService.accept (to = "accepted") and QuoteService.reject (to = "rejected") *)
QuoteService_decide(u, q, to) ==
  IF ~QuoteFound(u, q)
  THEN /\ last' = Outcome("quote_decide", u, q, to, "NotFound")
       /\ UNCHANGED <<db, next_id, reqs, users>>
  ELSE IF ~decide_allowed(quotes[q])
  THEN /\ last' = Outcome("quote_decide", u, q, to, "InvalidTransition")
       /\ UNCHANGED <<db, next_id, reqs, users>>
  ELSE /\ quotes' = [quotes EXCEPT ![q].status = to]
       /\ last' = Outcome("quote_decide", u, q, to, "ok")
       /\ UNCHANGED <<invoices, invoice_items, payments, quote_items, next_id, reqs, users>>

(* the invoice rows copied from the quote's items *)
CopiedItems_list_price(q, id, first) ==
  LET src == QuoteItemsOf(q)
      pos(k) == Cardinality({j \in src : j < k})
  IN [n \in first .. (first + Cardinality(src) - 1) |->
        LET k == CHOOSE k \in src : pos(k) = n - first
        IN create_item("invoice_id", id, [quote_items[k] EXCEPT !.discount_percent = 0])]
CopiedItems(q, id, first) ==
  LET src == QuoteItemsOf(q)
      pos(k) == Cardinality({j \in src : j < k})
  IN [n \in first .. (first + Cardinality(src) - 1) |->
        LET k == CHOOSE k \in src : pos(k) = n - first
        IN create_item("invoice_id", id, quote_items[k])]

(* the Invoice row convert_to_invoice builds from the quote *)
invoice_from_quote(u, q, number) ==
  [owner_id |-> u, client_id |-> quotes[q].client_id,
   invoice_number |-> number, status |-> "draft",
   subtotal |-> quotes[q].subtotal, tax_total |-> quotes[q].tax_total,
   total |-> quotes[q].total, amount_paid |-> 0, sent_at |-> FALSE]

QuoteService_convert_to_invoice(u, q) ==
  IF ~QuoteFound(u, q)
  THEN /\ last' = Outcome("quote_convert", u, q, 0, "NotFound")
       /\ UNCHANGED <<db, next_id, reqs, users>>
  ELSE IF quotes[q].status # "accepted"
  THEN /\ last' = Outcome("quote_convert", u, q, 0, "InvalidState")
       /\ UNCHANGED <<db, next_id, reqs, users>>
  ELSE IF quotes[q].converted_invoice_id # 0
  THEN /\ last' = Outcome("quote_convert", u, q, 0, "AlreadyConverted")
       /\ UNCHANGED <<db, next_id, reqs, users>>
  ELSE LET id == next_id.invoice
           number == generate_invoice_number(u)
           rows == CopiedItems(q, id, next_id.invoice_item)
           inv == invoice_from_quote(u, q, number)
       IN IF InvoiceNumberTaken(number)
             THEN /\ last' = Outcome("quote_convert", u, q, 0, "IntegrityError")
                  /\ UNCHANGED <<db, next_id, reqs, users>>
             ELSE /\ invoices' = invoices @@ (id :> inv)
                  /\ invoice_items' = invoice_items @@ rows
                  /\ quotes' = [quotes EXCEPT ![q].status = "converted",
                                              ![q].converted_invoice_id = id]
                  /\ next_id' = [next_id EXCEPT !.invoice = @ + 1,
                                   !.invoice_item = @ + Cardinality(DOMAIN rows)]
                  /\ last' = Outcome("quote_convert", u, q, id, "ok")
                  /\ UNCHANGED <<payments, quote_items, reqs, users>>

(* Where a persistence error can stop convert_to_invoice once its checks   *)
(* have passed: the flush that inserts the invoice, and in the final flush *)
(* the insert of a copied line or the update of the quote.                 *)
ConvertFailures == {"invoice_insert", "line_insert", "quote_update"}

(* the tables as the session has flushed them when the error is raised *)
convert_flushed(u, q, at) ==
  LET id == next_id.invoice
      inv == invoice_from_quote(u, q, generate_invoice_number(u))
      rows == CopiedItems(q, id, next_id.invoice_item)
  IN IF at = "invoice_insert" THEN <<invoices, invoice_items, quotes>>
     ELSE IF at = "line_insert" THEN <<invoices @@ (id :> inv), invoice_items, quotes>>
     ELSE <<invoices @@ (id :> inv), invoice_items @@ rows, quotes>>

(* The end of a request whose handler raised: the session dependency rolls *)
(* the transaction back, so the tables are those the request started from *)
(* and what it had flushed is discarded.                                   *)
session_rollback_keeps_flushed(before, flushed) == flushed
session_rollback(before, flushed) == before

(* convert_to_invoice stopped by a persistence error: the error leaves the *)
(* service (nothing catches it) and the request ends as a server error.    *)
QuoteService_convert_fails(u, q, at) ==
  /\ QuoteFound(u, q)
  /\ quotes[q].status = "accepted"
  /\ quotes[q].converted_invoice_id = 0
  /\ LET tables == session_rollback(<<invoices, invoice_items, quotes>>,
                                    convert_flushed(u, q, at))
     IN /\ invoices' = tables[1]
        /\ invoice_items' = tables[2]
        /\ quotes' = tables[3]
  /\ last' = OutcomeExt("quote_convert", u, q, 0, at, "ServerError")
  /\ UNCHANGED <<payments, quote_items, next_id, reqs, users>>

----------------------------------------------------------------------------
InvoiceIds == 1 .. MaxInvoices
QuoteIds == 1 .. MaxQuotes
ItemIds == 1 .. MaxItemIds
PaymentIds == 1 .. MaxPayments

(* Room left in the bounded id spaces *)
RoomInvoice(n) == next_id.invoice <= MaxInvoices /\ next_id.invoice_item + n - 1 <= MaxItemIds
RoomQuote(n) == next_id.quote <= MaxQuotes /\ next_id.quote_item + n - 1 <= MaxItemIds
RoomPayment == next_id.payment <= MaxPayments

(* An item payload in whole cents: 2 x 100.00 at 20 %, no discount *)
BigItem == [quantity |-> 2, unit_price |-> 10000, discount_percent |-> 0, tax_rate |-> 20]

(* An item payload whose line values are not whole cents *)
SmallItem == [quantity |-> 1, unit_price |-> 47, discount_percent |-> 10, tax_rate |-> 20]

(* the request is served successfully *)
Accepted == last'.res = "ok"

(* All operations, executed one after the other by owner 1.  The requests  *)
(* the services reject change no table and are left out here.              *)
Next ==
  \/ \E its \in {<<>>, <<SmallItem>>} :
       RoomInvoice(Len(its)) /\ InvoiceService_create(1, 1, its) /\ Accepted
  \/ \E i \in InvoiceIds :
       /\ next_id.invoice_item <= MaxItemIds
       /\ InvoiceService_add_item(1, i, SmallItem) /\ Accepted
  \/ \E i \in InvoiceIds, k \in ItemIds : InvoiceService_remove_item(1, i, k) /\ Accepted
  \/ \E i \in InvoiceIds, data \in StatusOnly(InvoiceUpdateInputs) :
       InvoiceService_update(1, i, data) /\ Accepted
  \/ \E i \in InvoiceIds : InvoiceService_send(1, i, "ok", "sent") /\ Accepted
  \/ \E i \in InvoiceIds : InvoiceService_cancel(1, i) /\ Accepted
  \/ \E i \in InvoiceIds : InvoiceService_delete(1, i) /\ Accepted
  \/ \E i \in InvoiceIds : \E amount \in PaymentAmounts(i) :
       RoomPayment /\ PaymentService_create(1, i, amount, "sent") /\ Accepted
  \/ \E p \in PaymentIds : PaymentService_delete(1, p) /\ Accepted
  \/ RoomQuote(1) /\ QuoteService_create(1, 1, <<SmallItem>>) /\ Accepted
  \/ \E q \in QuoteIds : QuoteService_send(1, q) /\ Accepted
  \/ \E q \in QuoteIds, to \in {"accepted", "rejected"} :
       QuoteService_decide(1, q, to) /\ Accepted
  \/ \E q \in QuoteIds :
       /\ RoomInvoice(Cardinality(QuoteItemsOf(q)))
       /\ QuoteService_convert_to_invoice(1, q) /\ Accepted

Spec == Init /\ [][Next]_vars

(* Editing of draft documents, both kinds, with both item payloads *)
NextItems ==
  \/ \E its \in ItemLists :
       RoomInvoice(Len(its)) /\ InvoiceService_create(1, 1, its) /\ Accepted
  \/ \E i \in InvoiceIds, data \in ItemInputs :
       /\ next_id.invoice_item <= MaxItemIds
       /\ InvoiceService_add_item(1, i, data) /\ Accepted
  \/ \E i \in InvoiceIds, k \in ItemIds : InvoiceService_remove_item(1, i, k) /\ Accepted
  \/ \E its \in ItemLists :
       RoomQuote(Len(its)) /\ QuoteService_create(1, 1, its) /\ Accepted
  \/ \E q \in QuoteIds, data \in ItemInputs :
       /\ next_id.quote_item <= MaxItemIds
       /\ QuoteService_add_item(1, q, data) /\ Accepted
  \/ \E q \in QuoteIds, k \in ItemIds : QuoteService_remove_item(1, q, k) /\ Accepted

SpecItems == InitObserved /\ [][NextItems]_vars

(* Payments on one kind of invoice, by both owners, with the payment       *)
(* requests that are rejected and every outcome of the receipt e-mail      *)
NextPay ==
  \/ \E u \in Owners, its \in {<<>>, <<BigItem>>} :
       RoomInvoice(Len(its)) /\ InvoiceService_create(u, ClientOwner(u), its) /\ Accepted
  \/ \E u \in Owners, i \in InvoiceIds : InvoiceService_send(u, i, "ok", "sent") /\ Accepted
  \/ \E u \in Owners, i \in InvoiceIds, data \in StatusOnly(InvoiceUpdateInputs) :
       InvoiceService_update(u, i, data) /\ Accepted
  \/ \E u \in Owners, i \in InvoiceIds : InvoiceService_cancel(u, i) /\ Accepted
  \/ \E u \in Owners, i \in InvoiceIds, mail \in ReceiptOutcomes :
       \E amount \in PaymentAmounts(i) :
          RoomPayment /\ PaymentService_create(u, i, amount, mail)
  \/ \E u \in Owners, p \in PaymentIds : PaymentService_delete(u, p)

SpecPay == InitObserved /\ [][NextPay]_vars

----------------------------------------------------------------------------
(* Two payment requests in flight.  Each request runs in its own session:  *)
(* it reads the invoice row and checks the preconditions on what it read   *)
(* (PayRead), and later inserts the payment and writes the columns it      *)
(* changed, computed from what it read (PayWrite).  Nothing in create      *)
(* locks the row or compares a version between the two steps.              *)

PayRead(r, u, i, amount) ==
  /\ reqs[r].pc = "idle"
  /\ LET found == InvoiceFound(u, i)
         res == payment_check(found, IF found THEN invoices[i] ELSE <<>>, amount)
     IN IF res # "ok"
        THEN /\ last' = Outcome("payment_create", u, i, amount, res)
             /\ UNCHANGED <<db, next_id, reqs, users>>
        ELSE /\ reqs' = [reqs EXCEPT ![r] =
                  [pc |-> "checked", owner |-> u, invoice_id |-> i, amount |-> amount,
                   amount_paid |-> invoices[i].amount_paid, total |-> invoices[i].total,
                   status |-> invoices[i].status]]
             /\ UNCHANGED <<db, next_id, users, last>>

PayWrite(r) ==
  /\ reqs[r].pc = "checked"
  /\ LET req == reqs[r]
         i == req.invoice_id
         loaded == [invoices[i] EXCEPT !.amount_paid = req.amount_paid,
                                       !.total = req.total, !.status = req.status]
         after == apply_payment(loaded, req.amount)
     IN /\ payments' = payments @@ (next_id.payment :> new_payment(i, req.amount))
        /\ invoices' = [invoices EXCEPT
             ![i].amount_paid = after.amount_paid,
             ![i].status = IF after.status # req.status THEN after.status ELSE @]
        /\ next_id' = [next_id EXCEPT !.payment = @ + 1]
        /\ reqs' = [reqs EXCEPT ![r] = Idle]
        /\ last' = OutcomeExt("payment_create", req.owner, i, req.amount, "sent", "ok")
        /\ UNCHANGED <<invoice_items, quotes, quote_items, users>>

(* the amounts that are whole cents *)
WholeCents(A) == {a \in A : a % AmountScale = 0}

(* requests that have passed the checks and not written yet *)
InFlight == {r \in DOMAIN reqs : reqs[r].pc = "checked"}

NextConc ==
  \/ \E u \in Owners, its \in {<<BigItem>>, <<SmallItem>>} :
       RoomInvoice(Len(its)) /\ InvoiceService_create(u, ClientOwner(u), its) /\ Accepted
  \/ \E u \in Owners, i \in InvoiceIds : InvoiceService_send(u, i, "ok", "sent") /\ Accepted
  \/ \E r \in DOMAIN reqs, u \in Owners, i \in InvoiceIds :
       \E amount \in WholeCents(PaymentAmounts(i)) :
          /\ next_id.payment + Cardinality(InFlight) <= MaxPayments
          /\ PayRead(r, u, i, amount)
  \/ \E r \in DOMAIN reqs : PayWrite(r)

SpecConc == InitObserved /\ [][NextConc]_vars

----------------------------------------------------------------------------
(* The life of an invoice: the send, cancel and delete requests of owner 1 *)
(* with those that are rejected and every outcome of the external calls of *)
(* send, and the accepted requests that move the status or the lines.      *)
NextLife ==
  \/ \E its \in {<<>>, <<SmallItem>>} :
       RoomInvoice(Len(its)) /\ InvoiceService_create(1, 1, its) /\ Accepted
  \/ \E i \in InvoiceIds, k \in ItemIds : InvoiceService_remove_item(1, i, k) /\ Accepted
  \/ \E i \in InvoiceIds, data \in StatusOnly(InvoiceUpdateInputs) :
       InvoiceService_update(1, i, data) /\ Accepted
  \/ \E i \in InvoiceIds, pdf \in PdfOutcomes, mail \in MailOutcomes :
       InvoiceService_send(1, i, pdf, mail)
  \/ \E i \in InvoiceIds : InvoiceService_cancel(1, i)
  \/ \E i \in InvoiceIds : InvoiceService_delete(1, i)
  \/ \E i \in InvoiceIds : \E amount \in WholeCents(PaymentAmounts(i)) :
       RoomPayment /\ PaymentService_create(1, i, amount, "sent") /\ Accepted
  \/ \E p \in PaymentIds : PaymentService_delete(1, p) /\ Accepted

SpecLife == InitObserved /\ [][NextLife]_vars

----------------------------------------------------------------------------
(* Editing the lines of a document: the add_item and remove_item requests *)
(* of owner 1 on invoices and quotes, draft or sent, with those that are   *)
(* rejected.                                                               *)
NextEdit ==
  \/ \E its \in {<<>>, <<SmallItem>>} :
       RoomInvoice(Len(its)) /\ InvoiceService_create(1, 1, its) /\ Accepted
  \/ \E i \in InvoiceIds :
       next_id.invoice_item <= MaxItemIds /\ InvoiceService_add_item(1, i, SmallItem)
  \/ \E i \in InvoiceIds, k \in ItemIds : InvoiceService_remove_item(1, i, k)
  \/ \E i \in InvoiceIds : InvoiceService_send(1, i, "ok", "sent") /\ Accepted
  \/ \E its \in {<<>>, <<SmallItem>>} :
       RoomQuote(Len(its)) /\ QuoteService_create(1, 1, its) /\ Accepted
  \/ \E q \in QuoteIds :
       next_id.quote_item <= MaxItemIds /\ QuoteService_add_item(1, q, SmallItem)
  \/ \E q \in QuoteIds, k \in ItemIds : QuoteService_remove_item(1, q, k)
  \/ \E q \in QuoteIds : QuoteService_send(1, q) /\ Accepted

SpecEdit == InitObserved /\ [][NextEdit]_vars

----------------------------------------------------------------------------
(* Updates through the life of an invoice: the update requests of owner 1  *)
(* with every payload, those that are rejected included, and the accepted  *)
(* requests that move the status.                                          *)
NextUpdate ==
  \/ \E its \in {<<>>, <<SmallItem>>} :
       RoomInvoice(Len(its)) /\ InvoiceService_create(1, 1, its) /\ Accepted
  \/ \E i \in InvoiceIds, data \in InvoiceUpdateInputs : InvoiceService_update(1, i, data)
  \/ \E i \in InvoiceIds : InvoiceService_send(1, i, "ok", "sent") /\ Accepted
  \/ \E i \in InvoiceIds : InvoiceService_cancel(1, i) /\ Accepted
  \/ \E i \in InvoiceIds : \E amount \in WholeCents(PaymentAmounts(i)) :
       RoomPayment /\ PaymentService_create(1, i, amount, "sent") /\ Accepted

SpecUpdate == InitObserved /\ [][NextUpdate]_vars

----------------------------------------------------------------------------
(* The life of a quote: every update, send, accept, reject and convert     *)
(* request of owner 1, those that are rejected included, and the accepted  *)
(* requests that create a quote or delete the invoice of a conversion.     *)
(* Room for the invoices of conversions: one more than MaxInvoices, so    *)
(* that a quote can be converted again after its invoice was deleted.      *)
ConversionIds == 1 .. (MaxInvoices + 1)
RoomConversion(n) ==
  next_id.invoice \in ConversionIds /\ next_id.invoice_item + n - 1 <= MaxItemIds

NextQuote ==
  \/ \E its \in {<<>>, <<SmallItem>>, <<BigItem, SmallItem>>} :
       RoomQuote(Len(its)) /\ QuoteService_create(1, 1, its) /\ Accepted
  \/ \E q \in QuoteIds, data \in QuoteUpdateInputs : QuoteService_update(1, q, data)
  \/ \E q \in QuoteIds : QuoteService_send(1, q)
  \/ \E q \in QuoteIds, to \in {"accepted", "rejected"} : QuoteService_decide(1, q, to)
  \/ \E q \in QuoteIds :
       /\ RoomConversion(Cardinality(QuoteItemsOf(q)))
       /\ QuoteService_convert_to_invoice(1, q) /\ Accepted
  \/ \E q \in QuoteIds : QuoteService_convert_to_invoice(1, q) /\ ~Accepted
  \/ \E q \in QuoteIds, at \in ConvertFailures :
       /\ RoomConversion(Cardinality(QuoteItemsOf(q)))
       /\ QuoteService_convert_fails(1, q, at)
  \/ \E i \in ConversionIds : InvoiceService_send(1, i, "ok", "sent") /\ Accepted
  \/ \E i \in ConversionIds : InvoiceService_delete(1, i) /\ Accepted

SpecQuote == InitObserved /\ [][NextQuote]_vars

----------------------------------------------------------------------------
(* Numbering: the creations, draft deletions and conversions of owner 1,   *)
(* one after the other, with the creations the unique constraint rejects.  *)
NextNumber ==
  \/ \E its \in {<<>>, <<SmallItem>>} :
       /\ InvoiceService_create(1, 1, its)
       /\ Accepted => RoomConversion(Len(its))
  \/ \E i \in ConversionIds : InvoiceService_send(1, i, "ok", "sent") /\ Accepted
  \/ \E i \in ConversionIds : InvoiceService_delete(1, i) /\ Accepted
  \/ RoomQuote(1) /\ QuoteService_create(1, 1, <<SmallItem>>) /\ Accepted
  \/ \E q \in QuoteIds : QuoteService_send(1, q) /\ Accepted
  \/ \E q \in QuoteIds, to \in {"accepted", "rejected"} :
       QuoteService_decide(1, q, to) /\ Accepted
  \/ \E q \in QuoteIds :
       /\ QuoteService_convert_to_invoice(1, q)
       /\ Accepted => RoomConversion(Cardinality(QuoteItemsOf(q)))

SpecNumber == InitObserved /\ [][NextNumber]_vars

----------------------------------------------------------------------------
(* Two creation requests in flight.  Each request runs in its own session: *)
(* it looks the client up and counts the owner's documents to make the     *)
(* number (CreateNumber), and later inserts the document with that number  *)
(* (CreateInsert), where the unique constraint of the table is checked.    *)
(* The documents created here have no lines.                               *)

DocumentKinds == {"invoice", "quote"}

CreateNumber(r, u, c, kind) ==
  /\ reqs[r].pc = "idle"
  /\ IF ~ClientFound(u, c)
     THEN /\ last' = Outcome(kind \o "_create", u, 0, c, "NotFound")
          /\ UNCHANGED <<db, next_id, reqs, users>>
     ELSE /\ reqs' = [reqs EXCEPT ![r] =
               [pc |-> "numbered", owner |-> u, client_id |-> c, kind |-> kind,
                number |-> IF kind = "invoice" THEN generate_invoice_number(u)
                                               ELSE generate_quote_number(u)]]
          /\ UNCHANGED <<db, next_id, users, last>>

CreateInsert(r) ==
  /\ reqs[r].pc = "numbered"
  /\ reqs' = [reqs EXCEPT ![r] = Idle]
  /\ LET req == reqs[r]
         taken == IF req.kind = "invoice" THEN InvoiceNumberTaken(req.number)
                                          ELSE QuoteNumberTaken(req.number)
     IN IF taken
        THEN /\ last' = Outcome(req.kind \o "_create", req.owner, 0, req.number, "IntegrityError")
             /\ UNCHANGED <<db, next_id, users>>
        ELSE IF req.kind = "invoice"
        THEN /\ invoices' = invoices @@ (next_id.invoice :>
                  [owner_id |-> req.owner, client_id |-> req.client_id,
                   invoice_number |-> req.number, status |-> "draft",
                   subtotal |-> 0, tax_total |-> 0, total |-> 0, amount_paid |-> 0,
                   sent_at |-> FALSE])
             /\ next_id' = [next_id EXCEPT !.invoice = @ + 1]
             /\ last' = Outcome("invoice_create", req.owner, next_id.invoice, req.number, "ok")
             /\ UNCHANGED <<invoice_items, payments, quotes, quote_items, users>>
        ELSE /\ quotes' = quotes @@ (next_id.quote :>
                  [owner_id |-> req.owner, client_id |-> req.client_id,
                   quote_number |-> req.number, status |-> "draft",
                   subtotal |-> 0, tax_total |-> 0, total |-> 0,
                   converted_invoice_id |-> 0])
             /\ next_id' = [next_id EXCEPT !.quote = @ + 1]
             /\ last' = Outcome("quote_create", req.owner, next_id.quote, req.number, "ok")
             /\ UNCHANGED <<invoices, invoice_items, payments, quote_items, users>>

(* Room for the documents of racing creations: one more than the bound of  *)
(* each kind, so that two documents of a kind can be stored.               *)
RoomRace(kind) ==
  IF kind = "invoice" THEN next_id.invoice <= MaxInvoices + 1
                      ELSE next_id.quote <= MaxQuotes + 1

NextRace ==
  \/ \E r \in DOMAIN reqs, u \in Owners, kind \in DocumentKinds :
       CreateNumber(r, u, u, kind)
  \/ \E r \in DOMAIN reqs :
       /\ CreateInsert(r)
       /\ Accepted => RoomRace(reqs[r].kind)
  \/ \E i \in DOMAIN invoices, data \in StatusOnly(InvoiceUpdateInputs) :
       InvoiceService_update(invoices[i].owner_id, i, data) /\ Accepted
  \/ \E i \in DOMAIN invoices :
       InvoiceService_delete(invoices[i].owner_id, i) /\ Accepted

SpecRace == InitObserved /\ [][NextRace]_vars

----------------------------------------------------------------------------
(* Reads of one document: get_or_404 behind GET /invoices/{id},            *)
(* GET /quotes/{id} and GET /payments/{id}.                                *)
InvoiceService_get_or_404(u, i) ==
  /\ last' = Outcome("invoice_get", u, i, 0, IF InvoiceFound(u, i) THEN "ok" ELSE "NotFound")
  /\ UNCHANGED <<db, next_id, reqs, users>>

QuoteService_get_or_404(u, q) ==
  /\ last' = Outcome("quote_get", u, q, 0, IF QuoteFound(u, q) THEN "ok" ELSE "NotFound")
  /\ UNCHANGED <<db, next_id, reqs, users>>

PaymentService_get_or_404(u, p) ==
  /\ last' = Outcome("payment_get", u, p, 0, IF PaymentFound(u, p) THEN "ok" ELSE "NotFound")
  /\ UNCHANGED <<db, next_id, reqs, users>>

(* Every request of caller u that addresses an invoice, a quote or a       *)
(* payment by id, with ids that exist and one that does not.               *)
AddressedRequest(u) ==
  \/ \E i \in 1 .. (MaxInvoices + 1) :
       \/ InvoiceService_get_or_404(u, i)
       \/ \E data \in InvoiceUpdateInputs : InvoiceService_update(u, i, data)
       \/ InvoiceService_add_item(u, i, SmallItem)
       \/ \E k \in ItemIds : InvoiceService_remove_item(u, i, k)
       \/ InvoiceService_send(u, i, "ok", "sent")
       \/ InvoiceService_cancel(u, i)
       \/ InvoiceService_delete(u, i)
       \/ PaymentService_create(u, i, AmountScale, "sent")
  \/ \E p \in 1 .. (MaxPayments + 1) :
       \/ PaymentService_get_or_404(u, p)
       \/ PaymentService_delete(u, p)
  \/ \E q \in 1 .. (MaxQuotes + 1) :
       \/ QuoteService_get_or_404(u, q)
       \/ \E data \in QuoteUpdateInputs : QuoteService_update(u, q, data)
       \/ QuoteService_add_item(u, q, SmallItem)
       \/ \E k \in ItemIds : QuoteService_remove_item(u, q, k)
       \/ QuoteService_send(u, q)
       \/ \E to \in {"accepted", "rejected"} : QuoteService_decide(u, q, to)
       \/ QuoteService_convert_to_invoice(u, q)

(* Two tenants: owner 1 builds its documents with accepted requests, and   *)
(* owner 2 addresses every id with every request.                          *)
NextOwner ==
  \/ RoomInvoice(1) /\ InvoiceService_create(1, 1, <<SmallItem>>) /\ Accepted
  \/ \E i \in InvoiceIds : InvoiceService_send(1, i, "ok", "sent") /\ Accepted
  \/ \E i \in InvoiceIds :
       RoomPayment /\ PaymentService_create(1, i, AmountScale, "sent") /\ Accepted
  \/ RoomQuote(1) /\ QuoteService_create(1, 1, <<SmallItem>>) /\ Accepted
  \/ \E q \in QuoteIds : QuoteService_send(1, q) /\ Accepted
  \/ \E q \in QuoteIds : QuoteService_decide(1, q, "accepted") /\ Accepted
  \/ \E i \in InvoiceIds : InvoiceService_get_or_404(1, i) /\ Accepted
  \/ AddressedRequest(2)

SpecOwner == InitObserved /\ [][NextOwner]_vars

----------------------------------------------------------------------------
(* Line items that reference a product *)

(* products table: product 1 belongs to owner 1, product 2 to owner 2;     *)
(* both cost 5.00 (500 cents) with a tax rate of 10 %.                     *)
Products == {1, 2}
ProductOwner(p) == p
ProductRow(p) == [unit_price |-> 500, tax_rate |-> 10]

(* Product lookup of _create_item: by id and owner *)
ProductFound(u, p) == p \in Products /\ ProductOwner(p) = u

(* Item payloads with a product_id, as the caller sends them: unit_price   *)
(* is required by the schema, tax_rate may be left out.                    *)
ProductItemInputs ==
  { [product_id |-> 1, unit_price |-> 47],
    [product_id |-> 1, unit_price |-> 47, tax_rate |-> 5],
    [product_id |-> 1, unit_price |-> 0, tax_rate |-> 0],
    [product_id |-> 2, unit_price |-> 47],
    [product_id |-> 3, unit_price |-> 47] }

(* InvoiceItemCreate / QuoteItemCreate: the payload after validation, with *)
(* the defaults of the schema for the fields that were left out.           *)
ItemCreate(raw) ==
  [f \in {"product_id", "quantity", "unit_price", "tax_rate", "discount_percent"} |->
     IF f \in DOMAIN raw THEN raw[f]
     ELSE IF f = "quantity" THEN 1
     ELSE IF f = "tax_rate" THEN 20
     ELSE 0]

(* `x if x else y` on Decimals: zero is falsy *)
if_else(x, y) == IF x # 0 THEN x ELSE y

(* _create_item with a product: the row built from payload and product *)
create_item_from_product(fk, doc_id, data, product) ==
  [quantity |-> data.quantity,
   unit_price |-> if_else(data.unit_price, product.unit_price),
   tax_rate |-> if_else(data.tax_rate, product.tax_rate),
   discount_percent |-> data.discount_percent]
  @@ (fk :> doc_id)

(* add_item with a payload that references a product *)
InvoiceService_add_product_item(u, i, raw) ==
  LET data == ItemCreate(raw)
  IN IF ~InvoiceFound(u, i)
     THEN /\ last' = Outcome("invoice_add_item", u, i, raw, "NotFound")
          /\ UNCHANGED <<db, next_id, reqs, users>>
     ELSE IF ~lines_editable(invoices[i])
     THEN /\ last' = Outcome("invoice_add_item", u, i, raw, "InvalidState")
          /\ UNCHANGED <<db, next_id, reqs, users>>
     ELSE IF ~ProductFound(u, data.product_id)
     THEN /\ last' = OutcomeExt("invoice_add_item", u, i, raw, "product", "NotFound")
          /\ UNCHANGED <<db, next_id, reqs, users>>
     ELSE LET k == next_id.invoice_item
              row == create_item_from_product("invoice_id", i, data,
                                              ProductRow(data.product_id))
              tbl == invoice_items @@ (k :> row)
          IN /\ invoice_items' = tbl
             /\ invoices' = [invoices EXCEPT
                  ![i] = calculate_totals(@, tbl, ItemsOf(tbl, "invoice_id", i))]
             /\ next_id' = [next_id EXCEPT !.invoice_item = @ + 1]
             /\ last' = Outcome("invoice_add_item", u, i, raw, "ok")
             /\ UNCHANGED <<payments, quotes, quote_items, reqs, users>>

QuoteService_add_product_item(u, q, raw) ==
  LET data == ItemCreate(raw)
  IN IF ~QuoteFound(u, q)
     THEN /\ last' = Outcome("quote_add_item", u, q, raw, "NotFound")
          /\ UNCHANGED <<db, next_id, reqs, users>>
     ELSE IF ~lines_editable(quotes[q])
     THEN /\ last' = Outcome("quote_add_item", u, q, raw, "InvalidState")
          /\ UNCHANGED <<db, next_id, reqs, users>>
     ELSE IF ~ProductFound(u, data.product_id)
     THEN /\ last' = OutcomeExt("quote_add_item", u, q, raw, "product", "NotFound")
          /\ UNCHANGED <<db, next_id, reqs, users>>
     ELSE LET k == next_id.quote_item
              row == create_item_from_product("quote_id", q, data,
                                              ProductRow(data.product_id))
              tbl == quote_items @@ (k :> row)
          IN /\ quote_items' = tbl
             /\ quotes' = [quotes EXCEPT
                  ![q] = calculate_totals(@, tbl, ItemsOf(tbl, "quote_id", q))]
             /\ next_id' = [next_id EXCEPT !.quote_item = @ + 1]
             /\ last' = Outcome("quote_add_item", u, q, raw, "ok")
             /\ UNCHANGED <<invoices, invoice_items, payments, reqs, users>>

(* Draft documents of owner 1 that receive lines from products *)
NextProduct ==
  \/ RoomInvoice(0) /\ InvoiceService_create(1, 1, <<>>) /\ Accepted
  \/ RoomQuote(0) /\ QuoteService_create(1, 1, <<>>) /\ Accepted
  \/ \E i \in InvoiceIds, raw \in ProductItemInputs :
       /\ next_id.invoice_item <= MaxItemIds
       /\ InvoiceService_add_product_item(1, i, raw)
  \/ \E q \in QuoteIds, raw \in ProductItemInputs :
       /\ next_id.quote_item <= MaxItemIds
       /\ QuoteService_add_product_item(1, q, raw)
  \/ \E i \in InvoiceIds, k \in ItemIds : InvoiceService_remove_item(1, i, k) /\ Accepted

SpecProduct == InitObserved /\ [][NextProduct]_vars

----------------------------------------------------------------------------
(* The computed properties of a line, read on an InvoiceItem or QuoteItem  *)
(* with the given columns.                                                 *)
LineInputs ==
  [quantity : {1, 2, 3}, unit_price : {0, 47, 10000},
   discount_percent : {0, 10, 33, 100}, tax_rate : {0, 20, 55, 100}]

(* the totals columns of a document *)
Totals(doc) == <<doc.subtotal, doc.tax_total, doc.total>>

ItemProperties(kind, it) ==
  /\ last' = [op |-> kind \o "_item", owner |-> 0, id |-> 0, arg |-> it, ext |-> "none",
              res |-> [subtotal |-> ItemSubtotal(it), tax_amount |-> ItemTaxAmount(it),
                       total |-> ItemTotal(it)]]
  /\ UNCHANGED <<db, next_id, reqs, users>>

NextCalc == \E kind \in DocumentKinds, it \in LineInputs : ItemProperties(kind, it)

SpecCalc == InitObserved /\ [][NextCalc]_vars

(* A call of Invoice.calculate_totals / Quote.calculate_totals on a stored *)
(* document, followed by a flush; arg keeps the totals before the call.    *)
Invoice_calculate_totals(i) ==
  /\ i \in DOMAIN invoices
  /\ invoices' = [invoices EXCEPT
       ![i] = calculate_totals(@, invoice_items, InvoiceItemsOf(i))]
  /\ last' = Outcome("invoice_calculate_totals", invoices[i].owner_id, i,
                     Totals(invoices[i]), "ok")
  /\ UNCHANGED <<invoice_items, payments, quotes, quote_items, next_id, reqs, users>>

Quote_calculate_totals(q) ==
  /\ q \in DOMAIN quotes
  /\ quotes' = [quotes EXCEPT
       ![q] = calculate_totals(@, quote_items, QuoteItemsOf(q))]
  /\ last' = Outcome("quote_calculate_totals", quotes[q].owner_id, q,
                     Totals(quotes[q]), "ok")
  /\ UNCHANGED <<invoices, invoice_items, payments, quote_items, next_id, reqs, users>>

(* Documents of owner 1 with their lines, and calls of calculate_totals *)
NextTotals ==
  \/ \E its \in ItemLists :
       RoomInvoice(Len(its)) /\ InvoiceService_create(1, 1, its) /\ Accepted
  \/ \E its \in ItemLists :
       RoomQuote(Len(its)) /\ QuoteService_create(1, 1, its) /\ Accepted
  \/ \E i \in InvoiceIds, k \in ItemIds : InvoiceService_remove_item(1, i, k) /\ Accepted
  \/ \E i \in InvoiceIds : Invoice_calculate_totals(i)
  \/ \E q \in QuoteIds : Quote_calculate_totals(q)

SpecTotals == InitObserved /\ [][NextTotals]_vars

----------------------------------------------------------------------------
(* Registration *)

(* AuthService.register: select(User).where(User.email == data.email) *)
EmailTaken_latest(email) ==
  \E u \in DOMAIN users : u = Cardinality(DOMAIN users) /\ users[u].email = email

EmailTaken(email) == \E u \in DOMAIN users : users[u].email = email

(* POST /auth/register: 400 when the e-mail exists, else the user is added *)
AuthService_register(raw) ==
  LET email == EmailStr(raw)
      id == Cardinality(DOMAIN users) + 1
  IN IF EmailTaken(email)
     THEN /\ last' = OutcomeExt("register", 0, 0, 0, raw, "BadRequest")
          /\ UNCHANGED <<db, next_id, reqs, users>>
     ELSE /\ users' = users @@ (id :> [email |-> email])
          /\ last' = OutcomeExt("register", 0, id, 0, raw, "ok")
          /\ UNCHANGED <<db, next_id, reqs>>

(* Registrations one after the other *)
NextAuth == \E raw \in RawEmails : AuthService_register(raw)

SpecAuth == InitObserved /\ [][NextAuth]_vars

----------------------------------------------------------------------------
(* Invoices with a line that costs nothing *)

(* An item payload of unit price 0.00, which InvoiceItemBase allows (ge=0) *)
FreeItem == [quantity |-> 1, unit_price |-> 0, discount_percent |-> 0, tax_rate |-> 20]

(* Invoices of one line, priced or free, their sending and their payments, *)
(* with the payment requests that are rejected.                            *)
NextFree ==
  \/ \E u \in Owners, it \in {FreeItem, BigItem} :
       RoomInvoice(1) /\ InvoiceService_create(u, ClientOwner(u), <<it>>) /\ Accepted
  \/ \E u \in Owners, i \in InvoiceIds : InvoiceService_send(u, i, "ok", "sent") /\ Accepted
  \/ \E u \in Owners, i \in InvoiceIds, mail \in ReceiptOutcomes :
       \E amount \in PaymentAmounts(i) :
          PaymentService_create(u, i, amount, mail) /\ (Accepted => RoomPayment)
  \/ \E u \in Owners, p \in PaymentIds : PaymentService_delete(u, p) /\ Accepted

SpecFree == InitObserved /\ [][NextFree]_vars

----------------------------------------------------------------------------
(* A payment and its reversal *)

(* PaymentService.create followed at once by PaymentService.delete of the  *)
(* payment it stored: the row is inserted and deleted, the invoice is      *)
(* updated twice.                                                          *)
PaymentService_create_then_delete(u, i, amount) ==
  /\ InvoiceFound(u, i)
  /\ payment_check(TRUE, invoices[i], amount) = "ok"
  /\ LET row == new_payment(i, amount)
         paid == apply_payment(invoices[i], amount)
     IN invoices' = [invoices EXCEPT ![i] = reverse_payment(paid, row.amount)]
  /\ payments' = Without(payments @@ (next_id.payment :> new_payment(i, amount)),
                         {next_id.payment})
  /\ next_id' = [next_id EXCEPT !.payment = @ + 1]
  /\ last' = Outcome("payment_create_delete", u, i, amount, "ok")
  /\ UNCHANGED <<invoice_items, quotes, quote_items, reqs, users>>

(* Invoices that are sent, marked overdue by an update of the status, and  *)
(* paid in whole cents, with payments that are reversed.                   *)
NextUndo ==
  \/ \E u \in Owners, it \in {SmallItem, BigItem} :
       RoomInvoice(1) /\ InvoiceService_create(u, ClientOwner(u), <<it>>) /\ Accepted
  \/ \E u \in Owners, i \in InvoiceIds : InvoiceService_send(u, i, "ok", "sent") /\ Accepted
  \/ \E u \in Owners, i \in InvoiceIds :
       /\ InvoiceFound(u, i) /\ invoices[i].status = "sent"
       /\ InvoiceService_update(u, i, "status" :> "overdue") /\ Accepted
  \/ \E u \in Owners, i \in InvoiceIds : \E amount \in WholeCents(PaymentAmounts(i)) :
       RoomPayment /\ PaymentService_create(u, i, amount, "sent") /\ Accepted
  \/ \E u \in Owners, p \in PaymentIds : PaymentService_delete(u, p) /\ Accepted
  \/ \E u \in Owners, i \in InvoiceIds : \E amount \in PaymentAmounts(i) :
       RoomPayment /\ PaymentService_create_then_delete(u, i, amount)

SpecUndo == InitObserved /\ [][NextUndo]_vars

----------------------------------------------------------------------------
(* Owners side by side: the creations of invoices and quotes by both       *)
(* owners, one after the other, those the unique constraint rejects        *)
(* included, and the deletions of draft invoices.                          *)
NextShared ==
  \/ \E u \in Owners :
       InvoiceService_create(u, ClientOwner(u), <<>>) /\ (Accepted => RoomRace("invoice"))
  \/ \E u \in Owners :
       QuoteService_create(u, ClientOwner(u), <<>>) /\ (Accepted => RoomRace("quote"))
  \/ \E u \in Owners, i \in DOMAIN invoices : InvoiceService_delete(u, i) /\ Accepted

SpecShared == InitObserved /\ [][NextShared]_vars

----------------------------------------------------------------------------
(* Interleaved conversions.  A convert request awaits the database three   *)
(* times: the endpoint loads the quote (get_or_404), convert_to_invoice    *)
(* checks the loaded quote and counts the owner's invoices for the number, *)
(* and the flushes insert the invoice with its lines and update the quote. *)
(* Other requests run between these steps; no row is locked and no version *)
(* is compared.                                                            *)
ConvertRead(r, u, q) ==
  /\ reqs[r].pc = "idle"
  /\ IF ~QuoteFound(u, q)
     THEN /\ last' = Outcome("quote_convert", u, q, 0, "NotFound")
          /\ UNCHANGED <<db, next_id, reqs, users>>
     ELSE /\ reqs' = [reqs EXCEPT ![r] =
               [pc |-> "loaded", owner |-> u, quote_id |-> q,
                status |-> quotes[q].status,
                converted_invoice_id |-> quotes[q].converted_invoice_id]]
          /\ UNCHANGED <<db, next_id, users, last>>

ConvertNumber(r) ==
  /\ reqs[r].pc = "loaded"
  /\ LET req == reqs[r]
     IN IF req.status # "accepted"
        THEN /\ last' = Outcome("quote_convert", req.owner, req.quote_id, 0, "InvalidState")
             /\ reqs' = [reqs EXCEPT ![r] = Idle]
        ELSE IF req.converted_invoice_id # 0
        THEN /\ last' = Outcome("quote_convert", req.owner, req.quote_id, 0, "AlreadyConverted")
             /\ reqs' = [reqs EXCEPT ![r] = Idle]
        ELSE /\ reqs' = [reqs EXCEPT ![r] =
                  [pc |-> "converting", owner |-> req.owner, quote_id |-> req.quote_id,
                   number |-> generate_invoice_number(req.owner)]]
             /\ UNCHANGED last
  /\ UNCHANGED <<db, next_id, users>>

ConvertWrite(r) ==
  /\ reqs[r].pc = "converting"
  /\ reqs' = [reqs EXCEPT ![r] = Idle]
  /\ LET req == reqs[r]
         q == req.quote_id
         id == next_id.invoice
         rows == CopiedItems(q, id, next_id.invoice_item)
     IN IF InvoiceNumberTaken(req.number)
        THEN /\ last' = Outcome("quote_convert", req.owner, q, 0, "IntegrityError")
             /\ UNCHANGED <<db, next_id, users>>
        ELSE /\ invoices' = invoices @@ (id :> invoice_from_quote(req.owner, q, req.number))
             /\ invoice_items' = invoice_items @@ rows
             /\ quotes' = [quotes EXCEPT ![q].status = "converted",
                                         ![q].converted_invoice_id = id]
             /\ next_id' = [next_id EXCEPT !.invoice = @ + 1,
                              !.invoice_item = @ + Cardinality(DOMAIN rows)]
             /\ last' = Outcome("quote_convert", req.owner, q, id, "ok")
             /\ UNCHANGED <<payments, quote_items, users>>

(* Quotes of owner 1 that are sent and decided, and convert requests that  *)
(* interleave.                                                             *)
NextConvert ==
  \/ \E its \in {<<>>, <<SmallItem>>} :
       RoomQuote(Len(its)) /\ QuoteService_create(1, 1, its) /\ Accepted
  \/ \E q \in QuoteIds : QuoteService_send(1, q) /\ Accepted
  \/ \E q \in QuoteIds, to \in {"accepted", "rejected"} :
       QuoteService_decide(1, q, to) /\ Accepted
  \/ \E r \in DOMAIN reqs, q \in QuoteIds : ConvertRead(r, 1, q)
  \/ \E r \in DOMAIN reqs : ConvertNumber(r)
  \/ \E r \in DOMAIN reqs :
       /\ ConvertWrite(r)
       /\ Accepted => RoomConversion(Cardinality(QuoteItemsOf(reqs[r].quote_id)))

SpecConvert == InitObserved /\ [][NextConvert]_vars

----------------------------------------------------------------------------
(* Properties *)

(* C1: after a successful add_item or remove_item on a draft invoice or    *)
(* quote, the stored total equals subtotal + tax_total, the stored         *)
(* subtotal equals the sum of the subtotals of the current lines and the   *)
(* stored tax_total equals the sum of their tax amounts.                   *)
C1_TotalsAfterEdit ==
  /\ (last.res = "ok" /\ last.op \in {"invoice_add_item", "invoice_remove_item"}) =>
       LET inv == invoices[last.id]
           ids == InvoiceItemsOf(last.id)
       IN /\ inv.status = "draft"
          /\ inv.total = inv.subtotal + inv.tax_total
          /\ inv.subtotal * FinePerCent = SumSubtotal(invoice_items, ids)
          /\ inv.tax_total * FinePerCent = SumTax(invoice_items, ids)
  /\ (last.res = "ok" /\ last.op \in {"quote_add_item", "quote_remove_item"}) =>
       LET quote == quotes[last.id]
           ids == QuoteItemsOf(last.id)
       IN /\ quote.status = "draft"
          /\ quote.total = quote.subtotal + quote.tax_total
          /\ quote.subtotal * FinePerCent = SumSubtotal(quote_items, ids)
          /\ quote.tax_total * FinePerCent = SumTax(quote_items, ids)

(* C2: right after a successful InvoiceService.create the stored invoice   *)
(* has subtotal = sum of the line subtotals, tax_total = sum of the line   *)
(* tax amounts and total = subtotal + tax_total.                           *)
C2_TotalsAfterCreate ==
  (last.op = "invoice_create" /\ last.res = "ok") =>
     LET inv == invoices[last.id]
         ids == InvoiceItemsOf(last.id)
     IN /\ inv.subtotal * FinePerCent = SumSubtotal(invoice_items, ids)
        /\ inv.tax_total * FinePerCent = SumTax(invoice_items, ids)
        /\ inv.total = inv.subtotal + inv.tax_total

(* C3: a successful payment of amount a on invoice i adds exactly one      *)
(* Payment row, of amount a and for invoice i, increases amount_paid by    *)
(* exactly a, and leaves the status paid if the new amount_paid >= total   *)
(* and partially_paid if 0 < amount_paid < total.                          *)
C3_PaymentApplied ==
  [][(last'.op = "payment_create" /\ last'.res = "ok") =>
       LET i == last'.id
           a == last'.arg
           old == invoices[i]
           new == invoices'[i]
       IN /\ \E p \in DOMAIN payments' \ DOMAIN payments :
               /\ DOMAIN payments' = DOMAIN payments \cup {p}
               /\ payments'[p].invoice_id = i
               /\ payments'[p].amount * AmountScale = a
          /\ \A p \in DOMAIN payments : payments'[p] = payments[p]
          /\ new.amount_paid * AmountScale = old.amount_paid * AmountScale + a
          /\ (new.amount_paid >= new.total) => (new.status = "paid")
          /\ (0 < new.amount_paid /\ new.amount_paid < new.total)
                => (new.status = "partially_paid")
    ]_vars

(* C4: on an invoice of the caller that is neither draft nor cancelled     *)
(* and has balance_due > 0, a payment of exactly balance_due is accepted   *)
(* and leaves status paid and balance_due 0; a payment of balance_due +    *)
(* 0.01 is rejected with ExceedsBalance and changes neither the invoice    *)
(* nor the payments.                                                       *)
C4_PaymentBoundary ==
  [][\A i \in DOMAIN invoices :
       ( /\ last'.op = "payment_create" /\ last'.id = i
         /\ last'.owner = invoices[i].owner_id
         /\ invoices[i].status \notin {"draft", "cancelled"}
         /\ balance_due(invoices[i]) > 0 )
       => /\ (last'.arg = balance_due(invoices[i]) * AmountScale) =>
                /\ last'.res = "ok"
                /\ invoices'[i].status = "paid"
                /\ balance_due(invoices'[i]) = 0
          /\ (last'.arg = (balance_due(invoices[i]) + 1) * AmountScale) =>
                /\ last'.res = "ExceedsBalance"
                /\ UNCHANGED <<invoices, payments>>
    ]_vars

(* a payment of exactly the balance due, made after a partial payment, has *)
(* been accepted                                                           *)
C4_Witness ==
  /\ last.op = "payment_create" /\ last.res = "ok"
  /\ last.arg > AmountScale
  /\ Cardinality(PaymentsOf(last.id)) = 2
  /\ invoices[last.id].status = "paid"
  /\ balance_due(invoices[last.id]) = 0

(* C5: the preconditions of a payment on an invoice of the caller are      *)
(* reported in this order: status cancelled or draft -> InvalidState;      *)
(* fully paid -> AlreadyPaid, in particular for the request that follows   *)
(* the payment that made the invoice paid; amount above total -            *)
(* amount_paid -> ExceedsBalance.  A rejected payment changes neither the  *)
(* invoices nor the payments.                                              *)
C5_PreconditionOrder ==
  [][(last'.op = "payment_create") =>
       /\ \A i \in DOMAIN invoices :
            (last'.id = i /\ last'.owner = invoices[i].owner_id) =>
              LET inv == invoices[i]
                  closed == inv.status \in {"cancelled", "draft"}
                  settled == inv.amount_paid >= inv.total
              IN /\ closed => last'.res = "InvalidState"
                 /\ (~closed /\ settled) => last'.res = "AlreadyPaid"
                 /\ ( /\ ~closed /\ ~settled
                      /\ last'.arg > (inv.total - inv.amount_paid) * AmountScale )
                       => last'.res = "ExceedsBalance"
                 /\ ( /\ last.op = "payment_create" /\ last.res = "ok" /\ last.id = i
                      /\ inv.status = "paid" )
                       => last'.res = "AlreadyPaid"
       /\ (last'.res # "ok") => UNCHANGED <<invoices, payments>>
    ]_vars

(* a payment on an invoice that is paid and has payments was rejected with *)
(* AlreadyPaid                                                             *)
C5_Witness ==
  /\ last.op = "payment_create" /\ last.res = "AlreadyPaid"
  /\ last.id \in DOMAIN invoices
  /\ invoices[last.id].status = "paid"
  /\ PaymentsOf(last.id) # {}

(* C6: in every state reached by operations executed one after the other,  *)
(* every invoice has 0 <= amount_paid <= total.                            *)
C6_NoOverpayment ==
  \A i \in DOMAIN invoices :
     0 <= invoices[i].amount_paid /\ invoices[i].amount_paid <= invoices[i].total

(* C7: when payment requests on one invoice are interleaved, the sum of    *)
(* the amounts of the accepted payments never exceeds the invoice total.   *)
C7_AcceptedWithinTotal ==
  \A i \in DOMAIN invoices : SumAmount(payments, PaymentsOf(i)) <= invoices[i].total

(* C8: in every state reached by operations executed one after the other,  *)
(* the amount_paid of each invoice is the sum of the amounts of its        *)
(* existing payments.                                                      *)
C8_PaidIsSumOfPayments ==
  \A i \in DOMAIN invoices : invoices[i].amount_paid = SumAmount(payments, PaymentsOf(i))

(* an invoice keeps a payment of a positive amount after another payment   *)
(* was reversed                                                            *)
C8_Witness ==
  \E i \in DOMAIN invoices :
     /\ next_id.payment > Cardinality(DOMAIN payments) + 1
     /\ \E p \in PaymentsOf(i) : payments[p].amount > 0
     /\ invoices[i].amount_paid > 0

(* C9: reversing a payment subtracts its amount from the amount_paid of    *)
(* its invoice; when the result is <= 0, amount_paid becomes 0 and the     *)
(* status sent, otherwise the status becomes partially_paid; the payment   *)
(* row is gone.                                                            *)
C9_Reversal ==
  [][\A p \in DOMAIN payments \ DOMAIN payments' :
       LET i == payments[p].invoice_id
           rest == invoices[i].amount_paid - payments[p].amount
       IN (i \in DOMAIN invoices') =>
             IF rest <= 0
             THEN invoices'[i].amount_paid = 0 /\ invoices'[i].status = "sent"
             ELSE invoices'[i].amount_paid = rest /\ invoices'[i].status = "partially_paid"
    ]_vars

(* C10: a payment that passes the checks is returned, and its row, the     *)
(* increased amount_paid and the new status are kept, whether the receipt  *)
(* e-mail is delivered, returns false, raises, or is not attempted.        *)
C10_ReceiptDecoupled ==
  [][\A i \in DOMAIN invoices :
       ( /\ last'.op = "payment_create" /\ last'.id = i
         /\ last'.owner = invoices[i].owner_id
         /\ invoices[i].status \notin {"draft", "cancelled"}
         /\ invoices[i].amount_paid < invoices[i].total
         /\ last'.arg <= balance_due(invoices[i]) * AmountScale )
       => /\ last'.res = "ok"
          /\ last'.ext \in ReceiptOutcomes
          /\ next_id.payment \in DOMAIN payments' \ DOMAIN payments
          /\ payments'[next_id.payment] = new_payment(i, last'.arg)
          /\ invoices'[i] = apply_payment(invoices[i], last'.arg)
    ]_vars

(* a payment was accepted and kept although the receipt e-mail raised *)
C10_Witness ==
  /\ last.op = "payment_create" /\ last.res = "ok" /\ last.ext = "raises"
  /\ (next_id.payment - 1) \in PaymentsOf(last.id)
  /\ invoices[last.id].amount_paid > 0
  /\ invoices[last.id].status \in {"paid", "partially_paid"}

(* C11: cancelling a paid invoice fails with InvalidTransition and leaves  *)
(* the invoice paid; cancelling an invoice that is draft, sent or          *)
(* partially_paid succeeds and sets the status cancelled.                  *)
C11_CancelGuard ==
  [][\A i \in DOMAIN invoices :
       (last'.op = "invoice_cancel" /\ last'.id = i /\ last'.owner = invoices[i].owner_id)
       => /\ (invoices[i].status = "paid") =>
                /\ last'.res = "InvalidTransition"
                /\ invoices' = invoices
          /\ (invoices[i].status \in {"draft", "sent", "partially_paid"}) =>
                /\ last'.res = "ok"
                /\ invoices'[i].status = "cancelled"
    ]_vars

(* the cancellation of an invoice paid by its payments was refused *)
C11_Witness ==
  /\ last.op = "invoice_cancel" /\ last.res = "InvalidTransition"
  /\ invoices[last.id].status = "paid"
  /\ PaymentsOf(last.id) # {}

(* C12: the status of an invoice becomes paid or partially_paid only in a  *)
(* successful request of the payment engine (a payment, or the reversal of *)
(* one); no other request, an update that carries a status in particular,  *)
(* sets these statuses.                                                    *)
C12_PaidOnlyByPayment ==
  [][\A i \in DOMAIN invoices \cap DOMAIN invoices' :
       ( /\ invoices'[i].status \in {"paid", "partially_paid"}
         /\ invoices'[i].status # invoices[i].status )
       => /\ last'.op \in {"payment_create", "payment_delete"}
          /\ last'.res = "ok"
    ]_vars

(* C13: an update that changes the client (standing for client, dates,    *)
(* notes and terms) succeeds only while the invoice is draft; on an        *)
(* invoice in any other status it fails with InvalidState and leaves the   *)
(* client unchanged.                                                       *)
C13_FieldsOnlyInDraft ==
  [][\A i \in DOMAIN invoices :
       ( /\ last'.op = "invoice_update" /\ last'.id = i
         /\ last'.owner = invoices[i].owner_id
         /\ "client_id" \in DOMAIN last'.arg )
       => /\ (last'.res = "ok") => (invoices[i].status = "draft")
          /\ (invoices[i].status # "draft") =>
                /\ last'.res = "InvalidState"
                /\ invoices'[i].client_id = invoices[i].client_id
    ]_vars

(* C14: add_item and remove_item on an invoice or quote that is not draft  *)
(* fail with InvalidState and leave its lines and totals unchanged; on a   *)
(* draft document add_item succeeds, inserts the line and stores the       *)
(* totals recalculated from the lines.                                     *)
C14_LinesOnlyInDraft ==
  [][/\ \A i \in DOMAIN invoices :
          ( /\ last'.op \in {"invoice_add_item", "invoice_remove_item"}
            /\ last'.id = i /\ last'.owner = invoices[i].owner_id )
          => /\ (invoices[i].status # "draft") =>
                   /\ last'.res = "InvalidState"
                   /\ UNCHANGED <<invoices, invoice_items>>
             /\ (invoices[i].status = "draft" /\ last'.op = "invoice_add_item") =>
                   LET ids == ItemsOf(invoice_items', "invoice_id", i)
                   IN /\ last'.res = "ok"
                      /\ ids = InvoiceItemsOf(i) \cup {next_id.invoice_item}
                      /\ next_id.invoice_item \notin DOMAIN invoice_items
                      /\ invoices'[i].subtotal = Round2(SumSubtotal(invoice_items', ids))
                      /\ invoices'[i].tax_total = Round2(SumTax(invoice_items', ids))
                      /\ invoices'[i].total =
                            Round2(SumSubtotal(invoice_items', ids) + SumTax(invoice_items', ids))
     /\ \A q \in DOMAIN quotes :
          ( /\ last'.op \in {"quote_add_item", "quote_remove_item"}
            /\ last'.id = q /\ last'.owner = quotes[q].owner_id )
          => /\ (quotes[q].status # "draft") =>
                   /\ last'.res = "InvalidState"
                   /\ UNCHANGED <<quotes, quote_items>>
             /\ (quotes[q].status = "draft" /\ last'.op = "quote_add_item") =>
                   LET ids == ItemsOf(quote_items', "quote_id", q)
                   IN /\ last'.res = "ok"
                      /\ ids = QuoteItemsOf(q) \cup {next_id.quote_item}
                      /\ next_id.quote_item \notin DOMAIN quote_items
                      /\ quotes'[q].subtotal = Round2(SumSubtotal(quote_items', ids))
                      /\ quotes'[q].tax_total = Round2(SumTax(quote_items', ids))
                      /\ quotes'[q].total =
                            Round2(SumSubtotal(quote_items', ids) + SumTax(quote_items', ids))
    ]_vars

(* a line was refused on a sent invoice whose line and totals are in place *)
C14_Witness ==
  /\ last.op = "invoice_add_item" /\ last.res = "InvalidState"
  /\ invoices[last.id].status = "sent"
  /\ InvoiceItemsOf(last.id) # {}
  /\ invoices[last.id].total > 0

(* C15: InvoiceService.delete succeeds only on a draft invoice and then    *)
(* removes the invoice with its lines and its payments; on any other       *)
(* status it fails and the invoice, its lines and its payments remain.     *)
C15_DeleteOnlyDraft ==
  [][\A i \in DOMAIN invoices :
       ( /\ last'.op = "invoice_delete"
         /\ last'.id = i /\ last'.owner = invoices[i].owner_id )
       => /\ (last'.res = "ok") =>
                /\ invoices[i].status = "draft"
                /\ i \notin DOMAIN invoices'
                /\ \A k \in DOMAIN invoice_items' : invoice_items'[k].invoice_id # i
                /\ \A p \in DOMAIN payments' : payments'[p].invoice_id # i
          /\ (invoices[i].status = "draft") => (last'.res = "ok")
          /\ (invoices[i].status # "draft") =>
                /\ last'.res = "InvalidState"
                /\ UNCHANGED <<invoices, invoice_items, payments>>
    ]_vars

(* a delete was refused on a cancelled invoice that keeps a line and a payment *)
C15_Witness ==
  /\ last.op = "invoice_delete" /\ last.res = "InvalidState"
  /\ last.id \in DOMAIN invoices
  /\ invoices[last.id].status = "cancelled"
  /\ InvoiceItemsOf(last.id) # {}
  /\ PaymentsOf(last.id) # {}

(* C16: InvoiceService.send sets the status to sent and sets sent_at only  *)
(* when the invoice is draft and has at least one line; from any other     *)
(* status, or without lines, it fails and status and sent_at are unchanged.*)
C16_SendOnlyDraftWithLines ==
  [][\A i \in DOMAIN invoices :
       ( /\ last'.op = "invoice_send"
         /\ last'.id = i /\ last'.owner = invoices[i].owner_id )
       => /\ (last'.res = "ok") =>
                /\ invoices[i].status = "draft"
                /\ InvoiceItemsOf(i) # {}
                /\ invoices'[i].status = "sent"
                /\ invoices'[i].sent_at
          /\ (invoices[i].status # "draft" \/ InvoiceItemsOf(i) = {}) =>
                /\ last'.res \in {"InvalidState", "NoItems"}
                /\ invoices'[i].status = invoices[i].status
                /\ invoices'[i].sent_at = invoices[i].sent_at
    ]_vars

(* a send was refused on a draft invoice without lines, which stays unsent *)
C16_Witness ==
  /\ last.op = "invoice_send" /\ last.res = "NoItems"
  /\ invoices[last.id].status = "draft"
  /\ ~invoices[last.id].sent_at
  /\ InvoiceItemsOf(last.id) = {}

(* C17: when PDF generation or email delivery fails during                 *)
(* InvoiceService.send on a draft invoice with lines, the send still       *)
(* succeeds and the invoice ends in status sent.                           *)
C17_SendSurvivesSideEffects ==
  [][\A i \in DOMAIN invoices :
       ( /\ last'.op = "invoice_send"
         /\ last'.id = i /\ last'.owner = invoices[i].owner_id
         /\ invoices[i].status = "draft"
         /\ InvoiceItemsOf(i) # {}
         /\ last'.ext \in {"pdf_raises", "false"} )
       => /\ last'.res = "ok"
          /\ invoices'[i].status = "sent"
    ]_vars

(* C18: QuoteService.accept and QuoteService.reject succeed only on a sent *)
(* quote, whose status becomes accepted and rejected respectively; from    *)
(* any other status they fail with InvalidTransition and the quote is      *)
(* unchanged.                                                              *)
C18_DecideOnlySent ==
  [][\A q \in DOMAIN quotes :
       ( /\ last'.op = "quote_decide"
         /\ last'.id = q /\ last'.owner = quotes[q].owner_id )
       => /\ (quotes[q].status = "sent") =>
                /\ last'.res = "ok"
                /\ quotes'[q] = [quotes[q] EXCEPT !.status = last'.arg]
                /\ last'.arg \in {"accepted", "rejected"}
          /\ (quotes[q].status # "sent") =>
                /\ last'.res = "InvalidTransition"
                /\ UNCHANGED <<quotes, quote_items>>
    ]_vars

(* a reject was refused on a quote that had been accepted *)
C18_Witness ==
  /\ last.op = "quote_decide" /\ last.arg = "rejected"
  /\ last.res = "InvalidTransition"
  /\ quotes[last.id].status = "accepted"

(* C19: in every step, a change of the status of a quote is draft -> sent  *)
(* (with at least one line), sent -> accepted, sent -> rejected or         *)
(* accepted -> converted, and the fields of a quote that is not draft do   *)
(* not change.                                                             *)
C19_QuoteTransitions ==
  [][\A q \in DOMAIN quotes \cap DOMAIN quotes' :
       /\ (quotes'[q].status # quotes[q].status) =>
             /\ <<quotes[q].status, quotes'[q].status>> \in
                  {<<"draft", "sent">>, <<"sent", "accepted">>,
                   <<"sent", "rejected">>, <<"accepted", "converted">>}
             /\ (quotes[q].status = "draft") => (QuoteItemsOf(q) # {})
       /\ (quotes[q].status # "draft") =>
             /\ quotes'[q].client_id = quotes[q].client_id
             /\ quotes'[q].subtotal = quotes[q].subtotal
             /\ quotes'[q].tax_total = quotes[q].tax_total
             /\ quotes'[q].total = quotes[q].total
    ]_vars

(* C20: convert_to_invoice on a quote that was already converted fails     *)
(* with AlreadyConverted, creates no invoice and leaves the invoice of the *)
(* first conversion unchanged.                                             *)
C20_SecondConversion ==
  [][\A q \in DOMAIN quotes :
       ( /\ last'.op = "quote_convert"
         /\ last'.id = q /\ last'.owner = quotes[q].owner_id
         /\ quotes[q].status = "converted"
         /\ quotes[q].converted_invoice_id \in DOMAIN invoices )
       => /\ last'.res = "AlreadyConverted"
          /\ UNCHANGED <<invoices, invoice_items>>
    ]_vars

(* the columns of a line that a conversion copies *)
LineFields(row) ==
  [quantity |-> row.quantity, unit_price |-> row.unit_price,
   tax_rate |-> row.tax_rate, discount_percent |-> row.discount_percent]

(* C21: a successful convert_to_invoice on an accepted quote creates       *)
(* exactly one new invoice, in draft, whose lines are one-to-one copies of *)
(* the quote's lines and whose subtotal, tax_total and total equal the     *)
(* quote's; the quote becomes converted and its converted_invoice_id is    *)
(* the id of the new invoice.                                              *)
C21_ConversionCopies ==
  [][\A q \in DOMAIN quotes :
       ( /\ last'.op = "quote_convert" /\ last'.res = "ok"
         /\ last'.id = q /\ quotes[q].status = "accepted" )
       => \E id \in DOMAIN invoices' \ DOMAIN invoices :
            LET src == QuoteItemsOf(q)
                new == ItemsOf(invoice_items', "invoice_id", id)
            IN /\ DOMAIN invoices' = DOMAIN invoices \cup {id}
               /\ \A i \in DOMAIN invoices : invoices'[i] = invoices[i]
               /\ invoices'[id].status = "draft"
               /\ invoices'[id].owner_id = quotes[q].owner_id
               /\ invoices'[id].client_id = quotes[q].client_id
               /\ invoices'[id].subtotal = quotes[q].subtotal
               /\ invoices'[id].tax_total = quotes[q].tax_total
               /\ invoices'[id].total = quotes[q].total
               /\ DOMAIN invoice_items' \ DOMAIN invoice_items = new
               /\ \E f \in [src -> new] :
                    /\ \A a, b \in src : f[a] = f[b] => a = b
                    /\ \A n \in new : \E a \in src : f[a] = n
                    /\ \A a \in src :
                         LineFields(invoice_items'[f[a]]) = LineFields(quote_items[a])
               /\ quote_items' = quote_items
               /\ quotes'[q] = [quotes[q] EXCEPT !.status = "converted",
                                                 !.converted_invoice_id = id]
    ]_vars

(* a quote with two lines was converted into an invoice with two lines *)
C21_Witness ==
  /\ last.op = "quote_convert" /\ last.res = "ok"
  /\ quotes[last.id].status = "converted"
  /\ quotes[last.id].converted_invoice_id = last.arg
  /\ Cardinality(QuoteItemsOf(last.id)) = 2
  /\ Cardinality(InvoiceItemsOf(last.arg)) = 2

(* C22: in every reachable state a quote is converted only if its          *)
(* converted_invoice_id refers to an invoice that exists, and a quote      *)
(* refers to an invoice of a conversion only if the quote is converted and *)
(* that invoice exists.                                                    *)
C22_ConvertedHasInvoice ==
  \A q \in DOMAIN quotes :
    /\ (quotes[q].status = "converted") =>
          quotes[q].converted_invoice_id \in DOMAIN invoices
    /\ (quotes[q].converted_invoice_id # 0) =>
          /\ quotes[q].status = "converted"
          /\ quotes[q].converted_invoice_id \in DOMAIN invoices

(* C23: convert_to_invoice succeeds at most once per quote.  Invoice ids   *)
(* are never reused, so next_id.invoice - 1 is the number of invoices ever *)
(* created; where invoices are created by conversions only, it never       *)
(* exceeds the number of quotes.                                           *)
C23_ConvertedOnce ==
  next_id.invoice - 1 <= Cardinality(DOMAIN quotes)

(* C24: when convert_to_invoice is stopped by a persistence error after   *)
(* it has started writing, nothing of it remains: no new invoice, no       *)
(* copied line, and the quote is still accepted with converted_invoice_id  *)
(* unset.                                                                  *)
C24_ConversionAtomic ==
  [][\A q \in DOMAIN quotes :
       ( /\ last'.op = "quote_convert" /\ last'.id = q
         /\ last'.res \notin {"ok", "NotFound", "InvalidState", "AlreadyConverted"}
         /\ quotes[q].status = "accepted" /\ quotes[q].converted_invoice_id = 0 )
       => /\ invoices' = invoices
          /\ invoice_items' = invoice_items
          /\ quotes'[q].status = "accepted"
          /\ quotes'[q].converted_invoice_id = 0
    ]_vars

(* the conversion of an accepted quote with lines failed while a copied    *)
(* line was inserted, and the quote is still accepted without an invoice   *)
C24_Witness ==
  /\ last.op = "quote_convert" /\ last.res = "ServerError"
  /\ last.ext = "line_insert"
  /\ quotes[last.id].status = "accepted"
  /\ quotes[last.id].converted_invoice_id = 0
  /\ QuoteItemsOf(last.id) # {}

(* C25: after any sequence of invoice creations, draft deletions and quote *)
(* conversions of one owner, the number the sequencer produces for that    *)
(* owner (count of the owner's documents plus one) is the number of none   *)
(* of the owner's current documents.                                       *)
C25_NumberIsFresh ==
  \A u \in Owners :
    /\ \A i \in DOMAIN invoices :
         (invoices[i].owner_id = u) => (invoices[i].invoice_number # generate_invoice_number(u))
    /\ \A q \in DOMAIN quotes :
         (quotes[q].owner_id = u) => (quotes[q].quote_number # generate_quote_number(u))

(* C26: under every interleaving of concurrent creations no two stored    *)
(* invoices and no two stored quotes share a document number, and no       *)
(* operation changes the number of an existing document.                   *)
C26_NumbersUnique ==
  [][/\ \A i, j \in DOMAIN invoices' :
          (i # j) => (invoices'[i].invoice_number # invoices'[j].invoice_number)
     /\ \A p, q \in DOMAIN quotes' :
          (p # q) => (quotes'[p].quote_number # quotes'[q].quote_number)
     /\ \A i \in DOMAIN invoices \cap DOMAIN invoices' :
          invoices'[i].invoice_number = invoices[i].invoice_number
     /\ \A q \in DOMAIN quotes \cap DOMAIN quotes' :
          quotes'[q].quote_number = quotes[q].quote_number
    ]_vars

(* of two creations of one owner that made the same number while both were *)
(* in flight, one has stored its invoice and the other was rejected        *)
C26_Witness ==
  /\ last.op = "invoice_create" /\ last.res = "IntegrityError"
  /\ Cardinality(DOMAIN invoices) = 1
  /\ next_id.invoice = 2
  /\ \E i \in DOMAIN invoices :
       /\ invoices[i].invoice_number = last.arg
       /\ invoices[i].owner_id = last.owner

(* the operations that address an invoice, a quote, a payment by id *)
InvoiceOps ==
  {"invoice_get", "invoice_update", "invoice_add_item", "invoice_remove_item",
   "invoice_send", "invoice_cancel", "invoice_delete", "payment_create"}
QuoteOps ==
  {"quote_get", "quote_update", "quote_add_item", "quote_remove_item",
   "quote_send", "quote_decide", "quote_convert"}
PaymentOps == {"payment_get", "payment_delete"}

(* C27: a read or write on an invoice, quote or payment addressed by an id *)
(* that belongs to another owner fails with NotFound, as it does for an id *)
(* that does not exist, and changes nothing.                               *)
C27_OwnerIsolation ==
  [][LET r == last'
         foreign ==
           \/ /\ r.op \in InvoiceOps
              /\ ~(r.id \in DOMAIN invoices /\ invoices[r.id].owner_id = r.owner)
           \/ /\ r.op \in QuoteOps
              /\ ~(r.id \in DOMAIN quotes /\ quotes[r.id].owner_id = r.owner)
           \/ /\ r.op \in PaymentOps
              /\ ~(/\ r.id \in DOMAIN payments
                   /\ invoices[payments[r.id].invoice_id].owner_id = r.owner)
     IN foreign => (r.res = "NotFound" /\ UNCHANGED <<db, next_id>>)
    ]_vars

(* owner 2 asked to delete a payment of a sent invoice of owner 1, which   *)
(* is still there                                                          *)
C27_Witness ==
  /\ last.op = "payment_delete" /\ last.owner = 2 /\ last.res = "NotFound"
  /\ last.id \in DOMAIN payments
  /\ invoices[payments[last.id].invoice_id].owner_id = 1
  /\ invoices[payments[last.id].invoice_id].amount_paid > 0

(* C28: a line created with a product reference stores the unit_price and *)
(* the tax_rate the caller specified, and takes the product's value only   *)
(* for a field the caller left out; a reference to a product of another    *)
(* owner, or to no product, fails with NotFound and stores nothing.        *)
C28_ProductDefaults ==
  [][LET raw == last'.arg
         d == last'.id
     IN /\ ( /\ last'.op = "invoice_add_item" /\ raw \in ProductItemInputs
             /\ InvoiceFound(last'.owner, d) /\ invoices[d].status = "draft" )
           => IF ProductFound(last'.owner, raw.product_id)
              THEN LET row == invoice_items'[next_id.invoice_item]
                       product == ProductRow(raw.product_id)
                   IN /\ last'.res = "ok"
                      /\ row.invoice_id = d
                      /\ row.unit_price = raw.unit_price
                      /\ row.tax_rate = IF "tax_rate" \in DOMAIN raw
                                        THEN raw.tax_rate ELSE product.tax_rate
              ELSE last'.res = "NotFound" /\ UNCHANGED db
        /\ ( /\ last'.op = "quote_add_item" /\ raw \in ProductItemInputs
             /\ QuoteFound(last'.owner, d) /\ quotes[d].status = "draft" )
           => IF ProductFound(last'.owner, raw.product_id)
              THEN LET row == quote_items'[next_id.quote_item]
                       product == ProductRow(raw.product_id)
                   IN /\ last'.res = "ok"
                      /\ row.quote_id = d
                      /\ row.unit_price = raw.unit_price
                      /\ row.tax_rate = IF "tax_rate" \in DOMAIN raw
                                        THEN raw.tax_rate ELSE product.tax_rate
              ELSE last'.res = "NotFound" /\ UNCHANGED db
    ]_vars

(* C29: for every line with quantity > 0, unit_price >= 0 and discount and *)
(* tax rate in [0,100]: subtotal = quantity * unit_price *                 *)
(* (1 - discount_percent/100), tax_amount = subtotal * tax_rate/100 and    *)
(* total = subtotal + tax_amount = subtotal * (1 + tax_rate/100), the same *)
(* for an InvoiceItem and a QuoteItem.                                     *)
C29_LineArithmetic ==
  (last.op \in {"invoice_item", "quote_item"}) =>
    LET it == last.arg
        r == last.res
        (* one percent of one percent of a cent, in fine units *)
        u == FinePerCent \div (100 * 100)
        base == it.quantity * it.unit_price * (100 - it.discount_percent)
    IN /\ u * (100 * 100) = FinePerCent
       /\ r.subtotal = base * 100 * u
       /\ r.tax_amount = base * it.tax_rate * u
       /\ r.total = r.subtotal + r.tax_amount
       /\ r.total = base * (100 + it.tax_rate) * u

(* a discounted, taxed line whose values are not whole cents was computed  *)
(* on a QuoteItem                                                          *)
C29_Witness ==
  /\ last.op = "quote_item"
  /\ last.arg.discount_percent = 33 /\ last.arg.tax_rate = 55
  /\ last.arg.unit_price = 47
  /\ last.res.total % FinePerCent # 0

(* C30: calculate_totals is idempotent: after a call, a second call on the *)
(* same lines yields the same subtotal, tax_total and total.               *)
C30_Idempotent ==
  /\ (last.op = "invoice_calculate_totals") =>
       Totals(calculate_totals(invoices[last.id], invoice_items, InvoiceItemsOf(last.id)))
         = Totals(invoices[last.id])
  /\ (last.op = "quote_calculate_totals") =>
       Totals(calculate_totals(quotes[last.id], quote_items, QuoteItemsOf(last.id)))
         = Totals(quotes[last.id])

(* a call of calculate_totals has changed the totals of an invoice with    *)
(* lines                                                                   *)
C30_Witness ==
  /\ last.op = "invoice_calculate_totals"
  /\ last.arg # Totals(invoices[last.id])
  /\ InvoiceItemsOf(last.id) # {}

(* C31: a registration whose e-mail already belongs to a user fails with   *)
(* HTTP 400 and creates no user, and a registration whose e-mail is new    *)
(* adds one user; so no two users ever share an e-mail.                    *)
C31_DuplicateEmailRejected ==
  /\ [][last'.op = "register" =>
          IF \E u \in DOMAIN users : users[u].email = EmailStr(last'.ext)
          THEN last'.res = "BadRequest" /\ users' = users
          ELSE last'.res = "ok" /\ Cardinality(DOMAIN users') = Cardinality(DOMAIN users) + 1]_vars
  /\ [](\A u, v \in DOMAIN users : users[u].email = users[v].email => u = v)

(* a registration was refused for an e-mail written with another domain    *)
(* case than the stored one, after another registration had succeeded      *)
C31_Witness ==
  /\ last.op = "register" /\ last.res = "BadRequest"
  /\ last.ext.domain = "X.IO"
  /\ Cardinality(DOMAIN users) > Cardinality(Owners)

(* C32: cancelled is terminal: an invoice that is cancelled keeps that     *)
(* status through every later operation, as long as it is stored.          *)
C32_CancelledIsTerminal ==
  [][\A i \in DOMAIN invoices :
       (invoices[i].status = "cancelled" /\ i \in DOMAIN invoices')
         => invoices'[i].status = "cancelled"]_vars

(* C33: in every state the stored status agrees with the amounts: paid     *)
(* implies amount_paid >= total, partially_paid implies                    *)
(* 0 < amount_paid < total, sent implies amount_paid = 0, and draft        *)
(* implies that the invoice has no payments.                               *)
C33_StatusAgreesWithAmounts ==
  \A i \in DOMAIN invoices :
    LET inv == invoices[i]
    IN /\ inv.status = "paid" => inv.amount_paid >= inv.total
       /\ inv.status = "partially_paid" => (0 < inv.amount_paid /\ inv.amount_paid < inv.total)
       /\ inv.status = "sent" => inv.amount_paid = 0
       /\ inv.status = "draft" => PaymentsOf(i) = {}

(* C34: a payment request is refused as AlreadyPaid only when the status   *)
(* of the invoice is paid; in particular not for a sent invoice that has a *)
(* line and no payment.                                                    *)
C34_AlreadyPaidOnlyWhenPaid ==
  [][(last'.op = "payment_create" /\ last'.res = "AlreadyPaid")
       => invoices[last'.id].status = "paid"]_vars

(* C35 as claimed: a payment that is applied and then reversed, with       *)
(* nothing in between, leaves the amount_paid, the status and the payments *)
(* of the invoice as they were before the payment.                         *)
C35_ReversalRestores ==
  [][last'.op = "payment_create_delete" =>
       /\ invoices'[last'.id].amount_paid = invoices[last'.id].amount_paid
       /\ invoices'[last'.id].status = invoices[last'.id].status
       /\ payments' = payments]_vars

(* C35, amended: a payment that is applied and then reversed leaves the    *)
(* amount_paid and the payments of the invoice as they were; the status    *)
(* afterwards is sent when nothing was paid before and partially_paid      *)
(* otherwise, whatever it was before the payment.                          *)
C35_ReversalRestoresAmounts ==
  [][last'.op = "payment_create_delete" =>
       /\ invoices'[last'.id].amount_paid = invoices[last'.id].amount_paid
       /\ invoices'[last'.id].status =
            (IF invoices[last'.id].amount_paid = 0 THEN "sent" ELSE "partially_paid")
       /\ payments' = payments]_vars

(* a payment below a cent was applied to a partially paid invoice and      *)
(* reversed at once                                                        *)
C35_Witness ==
  /\ last.op = "payment_create_delete"
  /\ last.arg % AmountScale # 0
  /\ invoices[last.id].status = "partially_paid"
  /\ invoices[last.id].amount_paid > 0

(* C36: when the payment requests on an invoice are interleaved and        *)
(* accepted, no increment is lost: once no request is between its read and *)
(* its write, the amount_paid of the invoice, 0.00 before the payments, is *)
(* the sum of the amounts of the payments recorded for it.                 *)
C36_NoLostIncrement ==
  InFlight = {} =>
    \A i \in DOMAIN invoices : invoices[i].amount_paid = SumAmount(payments, PaymentsOf(i))

(* C37: in every state the client of an invoice or of a quote belongs to   *)
(* the owner of the document, also after an update of client_id.           *)
C37_ClientOfSameOwner ==
  /\ \A i \in DOMAIN invoices : ClientOwner(invoices[i].client_id) = invoices[i].owner_id
  /\ \A q \in DOMAIN quotes : ClientOwner(quotes[q].client_id) = quotes[q].owner_id

(* C38: the creation of a document by an owner does not depend on the      *)
(* documents of the other owners: it succeeds exactly when it would        *)
(* succeed with the owner's own documents alone (the number generated from *)
(* them is carried by none of them), and the number the document receives  *)
(* is the one generated from the owner's own documents.                    *)
C38_CreationIndependent ==
  [][/\ last'.op = "invoice_create" =>
          LET own == {i \in DOMAIN invoices : invoices[i].owner_id = last'.owner}
              number == Cardinality(own) + 1
              taken == \E i \in own : invoices[i].invoice_number = number
          IN /\ last'.res = (IF taken THEN "IntegrityError" ELSE "ok")
             /\ last'.res = "ok" => invoices'[last'.id].invoice_number = number
     /\ last'.op = "quote_create" =>
          LET own == {q \in DOMAIN quotes : quotes[q].owner_id = last'.owner}
              number == Cardinality(own) + 1
              taken == \E q \in own : quotes[q].quote_number = number
          IN /\ last'.res = (IF taken THEN "IntegrityError" ELSE "ok")
             /\ last'.res = "ok" => quotes'[last'.id].quote_number = number]_vars

(* C39: when convert requests for one accepted quote are interleaved, at   *)
(* most one invoice is created from the quote and converted_invoice_id     *)
(* refers to it: there are no more invoices than converted quotes, and     *)
(* the invoice a converted quote names exists.                             *)
C39_OneInvoicePerQuote ==
  /\ Cardinality(DOMAIN invoices)
       <= Cardinality({q \in DOMAIN quotes : quotes[q].status = "converted"})
  /\ \A q \in DOMAIN quotes :
       quotes[q].status = "converted" => quotes[q].converted_invoice_id \in DOMAIN invoices

====
